---- MODULE Spec2Model ----
(***************************************************************************)
(* Model of the vector-explorer extension: the database type detector and  *)
(* the subprocess loader of src/services/VectorDBLoader.ts, and the panel  *)
(* that drives them (src/panels/VectorExplorerPanel.ts, extension.ts).     *)
(*                                                                         *)
(* Strings are sequences of characters.  A character is a one-element TLA+ *)
(* string; in adapter output one character may stand for a whole JSON      *)
(* lexeme (see JsonParse).  JavaScript runs every handler to completion,   *)
(* so one action is one synchronous run of a handler.                      *)
(***************************************************************************)
EXTENDS Integers, Sequences, FiniteSets, TLC

(***************************************************************************)
(* Strings and paths                                                       *)
(***************************************************************************)

\* The absent value of `string | null`.
Null == <<"null">>

\* The absent value of `VectorData | undefined`, shaped as a document with one
\* member so that it compares with any VectorData.
NoData == <<[key |-> "undefined", val |-> "undefined"]>>

\* The null result of detectDatabaseType.
NoType == "none"

\* String.prototype.toLowerCase on one character.
LowerChar(ch) ==
    CASE ch = "F" -> "f" [] ch = "A" -> "a" [] ch = "I" -> "i"
      [] ch = "S" -> "s" [] ch = "N" -> "n" [] ch = "D" -> "d"
      [] ch = "E" -> "e" [] ch = "X" -> "x" [] OTHER -> ch

ToLowerCase(s) == [i \in 1..Len(s) |-> LowerChar(s[i])]

EndsWith(s, suffix) ==
    /\ Len(s) >= Len(suffix)
    /\ SubSeq(s, Len(s) - Len(suffix) + 1, Len(s)) = suffix

\* path.join(dir, name) for a directory path and an entry name.
PathJoin(dir, name) == dir \o <<"/">> \o name

DotFaiss == <<".", "f", "a", "i", "s", "s">>
DotIndex == <<".", "i", "n", "d", "e", "x">>
ChromaSqlite == <<"c", "h", "r", "o", "m", "a", ".", "s", "q", "l", "i", "t", "e", "3">>
IndexFaiss == <<"i", "n", "d", "e", "x">> \o DotFaiss
DotGit == <<".", "g", "i", "t">>

\* The extension test without the toLowerCase() before it.
IsFaissName_CaseSensitive(name) ==
    \/ EndsWith(name, DotFaiss)
    \/ EndsWith(name, DotIndex)

\* lowerName.endsWith('.faiss') || lowerName.endsWith('.index')
IsFaissName(name) ==
    \/ EndsWith(ToLowerCase(name), DotFaiss)
    \/ EndsWith(ToLowerCase(name), DotIndex)

(***************************************************************************)
(* The machine the extension runs on.  kind maps every existing path to    *)
(* "file", "dir", "link" (a symbolic link) or "other" (a FIFO, a socket),  *)
(* link gives each symbolic link's target, list gives each directory's     *)
(* listing in readdir order, unreadable holds the directories whose        *)
(* readdirSync throws, commands the command names the shell can run.       *)
(***************************************************************************)

ExtensionPath == <<"/", "x">>
PythonDir == <<"p", "y", "t", "h", "o", "n">>
FaissAdapterPy == <<"f", "a", "i", "s", "s", "_", "a", "d", "a", "p", "t", "e", "r", ".", "p", "y">>
ChromaAdapterPy == <<"c", "h", "r", "o", "m", "a", "_", "a", "d", "a", "p", "t", "e", "r", ".", "p", "y">>

\* The paths a user opens.
MissingPath == <<"/", "m">>
UpperFaissFile == <<"/", "f", ".", "F", "A", "I", "S", "S">>
TextFile == <<"/", "n", ".", "t", "x", "t">>
ChromaDir == <<"/", "c">>
NestedDir == <<"/", "s">>
SpaceFile == <<"/", "a", " ", "b", ".", "f", "a", "i", "s", "s">>
QuoteFile == <<"/", "q", "\"", "r", ".", "f", "a", "i", "s", "s">>

MixedIndexFile == <<"/", "y", ".", "I", "n", "d", "e", "x">>
ChromaFile == <<"/">> \o ChromaSqlite
FifoPath == <<"/", "p">>
LockedDir == <<"/", "k">>

SubU == <<"u">>
VIndex == <<"v", ".", "i", "n", "d", "e", "x">>

BaseKind ==
    (UpperFaissFile :> "file") @@ (TextFile :> "file")
    @@ (SpaceFile :> "file") @@ (QuoteFile :> "file")
    @@ (MixedIndexFile :> "file") @@ (ChromaFile :> "file")
    @@ (FifoPath :> "other") @@ (LockedDir :> "dir")
    @@ (ChromaDir :> "dir") @@ (PathJoin(ChromaDir, ChromaSqlite) :> "file")
    @@ (NestedDir :> "dir") @@ (PathJoin(NestedDir, SubU) :> "dir")
    @@ (PathJoin(PathJoin(NestedDir, SubU), VIndex) :> "file")
    @@ (ExtensionPath :> "dir") @@ (PathJoin(ExtensionPath, PythonDir) :> "dir")
    @@ (PathJoin(PathJoin(ExtensionPath, PythonDir), FaissAdapterPy) :> "file")

BaseList ==
    (ChromaDir :> <<ChromaSqlite>>)
    @@ (NestedDir :> <<SubU>>)
    @@ (PathJoin(NestedDir, SubU) :> <<VIndex>>)
    @@ (ExtensionPath :> <<PythonDir>>)
    @@ (LockedDir :> <<VIndex>>)

NoLinks == [p \in {} |-> p]

\* 'python3', the interpreter named when no pythonPath is configured.
DefaultPython == <<"p", "y", "t", "h", "o", "n", "3">>

\* An installation with both adapter scripts, one that lost chroma_adapter.py,
\* and a machine on which the shell finds no Python interpreter.
FsComplete ==
    [kind |-> BaseKind
        @@ (PathJoin(PathJoin(ExtensionPath, PythonDir), ChromaAdapterPy) :> "file"),
     link |-> NoLinks,
     list |-> BaseList
        @@ (PathJoin(ExtensionPath, PythonDir) :> <<ChromaAdapterPy, FaissAdapterPy>>),
     unreadable |-> {LockedDir},
     commands |-> {DefaultPython}]

FsNoChromaAdapter ==
    [kind |-> BaseKind,
     link |-> NoLinks,
     list |-> BaseList @@ (PathJoin(ExtensionPath, PythonDir) :> <<FaissAdapterPy>>),
     unreadable |-> {LockedDir},
     commands |-> {DefaultPython}]

FsNoPython == [FsComplete EXCEPT !.commands = {}]

FileSystems == {FsComplete, FsNoChromaAdapter, FsNoPython}

\* path.basename of a path with at least one '/'
LastSlash(p) == CHOOSE i \in 1..Len(p) : p[i] = "/" /\ \A j \in (i + 1)..Len(p) : p[j] # "/"
Basename(p) == SubSeq(p, LastSlash(p) + 1, Len(p))

\* The entry statSync, existsSync and readdirSync reach through a path: the
\* target of a path that is a symbolic link, the path itself when it is
\* another entry, Null when it names nothing.  Link targets are not links, and
\* every path the loader builds runs through directories proper.
Real(fsys, p) ==
    IF p \in DOMAIN fsys.link THEN fsys.link[p]
    ELSE IF p \in DOMAIN fsys.kind THEN p
    ELSE Null

\* fs.existsSync
ExistsSync(fsys, p) == Real(fsys, p) # Null

\* fs.statSync(p).isFile() / .isDirectory(), for an existing path
IsFile(fsys, p) == fsys.kind[Real(fsys, p)] = "file"
IsDirectory(fsys, p) == fsys.kind[Real(fsys, p)] = "dir"

\* fs.readdirSync: ok is FALSE when the call throws.
Readdir(fsys, p) ==
    LET r == Real(fsys, p)
    IN  IF r \in DOMAIN fsys.list /\ r \notin fsys.unreadable
        THEN [ok |-> TRUE, entries |-> fsys.list[r]]
        ELSE [ok |-> FALSE, entries |-> <<>>]

\* entry.isFile() / entry.isDirectory() of an entry readdirSync returned with
\* withFileTypes: the entry's own type, a symbolic link being neither.
DirentIsFile(fsys, dirPath, name) ==
    LET p == PathJoin(Real(fsys, dirPath), name)
    IN  p \in DOMAIN fsys.kind /\ fsys.kind[p] = "file"

\* Dirent.isDirectory() reporting what a symbolic link points to.
DirentIsDirectory_FollowsLinks(fsys, dirPath, name) ==
    /\ ExistsSync(fsys, PathJoin(dirPath, name))
    /\ IsDirectory(fsys, PathJoin(dirPath, name))

DirentIsDirectory(fsys, dirPath, name) ==
    LET p == PathJoin(Real(fsys, dirPath), name)
    IN  p \in DOMAIN fsys.kind /\ fsys.kind[p] = "dir"

(***************************************************************************)
(* Type detection                                                          *)
(***************************************************************************)

\* The default depth bound handed to both searches.
SearchMaxDepth == 3

RECURSIVE SearchForFaissFiles(_, _, _, _)
RECURSIVE FaissInSubdirs(_, _, _, _, _, _)

\* First loop of searchForFaissFiles: the first entry, from index i on, that is
\* a file with a FAISS extension; Null when there is none.
FirstFaissFile(fsys, dirPath, entries, i) ==
    LET hits == {j \in i..Len(entries) :
                    /\ DirentIsFile(fsys, dirPath, entries[j])
                    /\ IsFaissName(entries[j])}
    IN  IF hits = {} THEN Null
        ELSE PathJoin(dirPath, entries[CHOOSE j \in hits : \A k \in hits : j <= k])

\* The second loop with no try around the readdirSync of the recursive call:
\* the first unreadable subdirectory ends the whole search.
FaissInSubdirs_StopsAtUnreadable(fsys, dirPath, entries, i, currentDepth, maxDepth) ==
    IF i > Len(entries) THEN Null
    ELSE LET sub == PathJoin(dirPath, entries[i])
             visit == DirentIsDirectory(fsys, dirPath, entries[i]) /\ entries[i] # DotGit
             found == IF visit
                      THEN SearchForFaissFiles(fsys, sub, currentDepth + 1, maxDepth)
                      ELSE Null
         IN  IF visit /\ currentDepth < maxDepth /\ ~Readdir(fsys, sub).ok THEN Null
             ELSE IF found # Null THEN found
             ELSE FaissInSubdirs(fsys, dirPath, entries, i + 1, currentDepth, maxDepth)

\* Second loop: subdirectories in listing order, '.git' skipped.
FaissInSubdirs(fsys, dirPath, entries, i, currentDepth, maxDepth) ==
    IF i > Len(entries) THEN Null
    ELSE LET sub == PathJoin(dirPath, entries[i])
             found == IF DirentIsDirectory(fsys, dirPath, entries[i]) /\ entries[i] # DotGit
                      THEN SearchForFaissFiles(fsys, sub, currentDepth + 1, maxDepth)
                      ELSE Null
         IN  IF found # Null THEN found
             ELSE FaissInSubdirs(fsys, dirPath, entries, i + 1, currentDepth, maxDepth)

\* The depth test written with >=.
SearchForFaissFiles_StopsOneLevelEarly(fsys, dirPath, currentDepth, maxDepth) ==
    IF currentDepth >= maxDepth THEN Null
    ELSE LET rd == Readdir(fsys, dirPath)
             direct == FirstFaissFile(fsys, dirPath, rd.entries, 1)
         IN  IF ~rd.ok THEN Null
             ELSE IF direct # Null THEN direct
             ELSE FaissInSubdirs(fsys, dirPath, rd.entries, 1, currentDepth, maxDepth)

\* The two loops in the other order: subdirectories before the directory's
\* own files.
SearchForFaissFiles_SubdirsFirst(fsys, dirPath, currentDepth, maxDepth) ==
    IF currentDepth > maxDepth THEN Null
    ELSE LET rd == Readdir(fsys, dirPath)
             below == FaissInSubdirs(fsys, dirPath, rd.entries, 1, currentDepth, maxDepth)
         IN  IF ~rd.ok THEN Null
             ELSE IF below # Null THEN below
             ELSE FirstFaissFile(fsys, dirPath, rd.entries, 1)

\* searchForFaissFiles: the path of the first match, Null for null.
SearchForFaissFiles(fsys, dirPath, currentDepth, maxDepth) ==
    IF currentDepth > maxDepth THEN Null
    ELSE LET rd == Readdir(fsys, dirPath)
             direct == FirstFaissFile(fsys, dirPath, rd.entries, 1)
         IN  IF ~rd.ok THEN Null
             ELSE IF direct # Null THEN direct
             ELSE FaissInSubdirs(fsys, dirPath, rd.entries, 1, currentDepth, maxDepth)

RECURSIVE SearchForChromaDB(_, _, _, _)
RECURSIVE ChromaInSubdirs(_, _, _, _, _, _)

ChromaInSubdirs(fsys, dirPath, entries, i, currentDepth, maxDepth) ==
    IF i > Len(entries) THEN Null
    ELSE LET sub == PathJoin(dirPath, entries[i])
             found == IF DirentIsDirectory(fsys, dirPath, entries[i]) /\ entries[i] # DotGit
                      THEN SearchForChromaDB(fsys, sub, currentDepth + 1, maxDepth)
                      ELSE Null
         IN  IF found # Null THEN found
             ELSE ChromaInSubdirs(fsys, dirPath, entries, i + 1, currentDepth, maxDepth)

\* The search returning the sentinel file rather than its directory.
SearchForChromaDB_ReturnsFile(fsys, dirPath, currentDepth, maxDepth) ==
    IF currentDepth > maxDepth THEN Null
    ELSE LET rd == Readdir(fsys, dirPath)
         IN  IF ~rd.ok THEN Null
             ELSE IF \E j \in 1..Len(rd.entries) :
                        /\ rd.entries[j] = ChromaSqlite
                        /\ DirentIsFile(fsys, dirPath, rd.entries[j])
                  THEN PathJoin(dirPath, ChromaSqlite)
             ELSE ChromaInSubdirs(fsys, dirPath, rd.entries, 1, currentDepth, maxDepth)

\* searchForChromaDB: the directory holding the first chroma.sqlite3 found.
SearchForChromaDB(fsys, dirPath, currentDepth, maxDepth) ==
    IF currentDepth > maxDepth THEN Null
    ELSE LET rd == Readdir(fsys, dirPath)
         IN  IF ~rd.ok THEN Null
             ELSE IF \E j \in 1..Len(rd.entries) :
                        /\ rd.entries[j] = ChromaSqlite
                        /\ DirentIsFile(fsys, dirPath, rd.entries[j])
                  THEN dirPath
             ELSE ChromaInSubdirs(fsys, dirPath, rd.entries, 1, currentDepth, maxDepth)

RECURSIVE FaissReads(_, _, _, _)
RECURSIVE FaissSubdirReads(_, _, _, _, _, _)

\* The directories searchForFaissFiles hands to readdirSync, in call order:
\* its own directory, then those of the recursive calls up to the one that
\* returns a match.
FaissSubdirReads(fsys, dirPath, entries, i, currentDepth, maxDepth) ==
    IF i > Len(entries) THEN <<>>
    ELSE LET sub == PathJoin(dirPath, entries[i])
             rest == FaissSubdirReads(fsys, dirPath, entries, i + 1, currentDepth, maxDepth)
         IN  IF DirentIsDirectory(fsys, dirPath, entries[i]) /\ entries[i] # DotGit
             THEN FaissReads(fsys, sub, currentDepth + 1, maxDepth)
                  \o (IF SearchForFaissFiles(fsys, sub, currentDepth + 1, maxDepth) # Null
                      THEN <<>> ELSE rest)
             ELSE rest

FaissReads(fsys, dirPath, currentDepth, maxDepth) ==
    IF currentDepth > maxDepth THEN <<>>
    ELSE LET rd == Readdir(fsys, dirPath)
         IN  IF ~rd.ok \/ FirstFaissFile(fsys, dirPath, rd.entries, 1) # Null
             THEN <<dirPath>>
             ELSE <<dirPath>>
                  \o FaissSubdirReads(fsys, dirPath, rd.entries, 1, currentDepth, maxDepth)

RECURSIVE ChromaReads(_, _, _, _)
RECURSIVE ChromaSubdirReads(_, _, _, _, _, _)

\* The same for searchForChromaDB.
ChromaSubdirReads(fsys, dirPath, entries, i, currentDepth, maxDepth) ==
    IF i > Len(entries) THEN <<>>
    ELSE LET sub == PathJoin(dirPath, entries[i])
             rest == ChromaSubdirReads(fsys, dirPath, entries, i + 1, currentDepth, maxDepth)
         IN  IF DirentIsDirectory(fsys, dirPath, entries[i]) /\ entries[i] # DotGit
             THEN ChromaReads(fsys, sub, currentDepth + 1, maxDepth)
                  \o (IF SearchForChromaDB(fsys, sub, currentDepth + 1, maxDepth) # Null
                      THEN <<>> ELSE rest)
             ELSE rest

ChromaReads(fsys, dirPath, currentDepth, maxDepth) ==
    IF currentDepth > maxDepth THEN <<>>
    ELSE LET rd == Readdir(fsys, dirPath)
         IN  IF \/ ~rd.ok
                \/ \E j \in 1..Len(rd.entries) :
                        /\ rd.entries[j] = ChromaSqlite
                        /\ DirentIsFile(fsys, dirPath, rd.entries[j])
             THEN <<dirPath>>
             ELSE <<dirPath>>
                  \o ChromaSubdirReads(fsys, dirPath, rd.entries, 1, currentDepth, maxDepth)

\* The readdirSync calls of one detectDatabaseType(dbPath) on a directory with
\* neither chroma.sqlite3 nor index.faiss directly inside: the FAISS search,
\* then the Chroma search when the first found nothing.
DetectionReads(fsys, dbPath) ==
    FaissReads(fsys, dbPath, 0, SearchMaxDepth)
    \o (IF SearchForFaissFiles(fsys, dbPath, 0, SearchMaxDepth) # Null THEN <<>>
        ELSE ChromaReads(fsys, dbPath, 0, SearchMaxDepth))

\* Detection running both nested searches before it looks at the direct
\* children.
DetectDatabaseType_NestedFirst(fsys, field, dbPath) ==
    IF ~ExistsSync(fsys, dbPath) THEN [type |-> NoType, detected |-> field]
    ELSE IF IsFile(fsys, dbPath)
    THEN IF IsFaissName(dbPath)
         THEN [type |-> "faiss", detected |-> dbPath]
         ELSE [type |-> NoType, detected |-> field]
    ELSE IF IsDirectory(fsys, dbPath)
    THEN LET foundFaiss == SearchForFaissFiles(fsys, dbPath, 0, SearchMaxDepth)
             foundChroma == SearchForChromaDB(fsys, dbPath, 0, SearchMaxDepth)
         IN  IF foundFaiss # Null
             THEN [type |-> "faiss", detected |-> foundFaiss]
             ELSE IF foundChroma # Null
             THEN [type |-> "chroma", detected |-> foundChroma]
             ELSE IF ExistsSync(fsys, PathJoin(dbPath, ChromaSqlite))
             THEN [type |-> "chroma", detected |-> dbPath]
             ELSE IF ExistsSync(fsys, PathJoin(dbPath, IndexFaiss))
             THEN [type |-> "faiss", detected |-> PathJoin(dbPath, IndexFaiss)]
             ELSE [type |-> NoType, detected |-> field]
    ELSE [type |-> NoType, detected |-> field]

\* detectDatabaseType: type is the returned value (Null for null), detected is
\* the value of this._detectedPath when it returns, given its value `field`
\* on entry.
DetectDatabaseType(fsys, field, dbPath) ==
    IF ~ExistsSync(fsys, dbPath) THEN [type |-> NoType, detected |-> field]
    ELSE IF IsFile(fsys, dbPath)
    THEN IF IsFaissName(dbPath)
         THEN [type |-> "faiss", detected |-> dbPath]
         ELSE [type |-> NoType, detected |-> field]
    ELSE IF IsDirectory(fsys, dbPath)
    THEN LET foundFaiss == SearchForFaissFiles(fsys, dbPath, 0, SearchMaxDepth)
             foundChroma == SearchForChromaDB(fsys, dbPath, 0, SearchMaxDepth)
         IN  IF ExistsSync(fsys, PathJoin(dbPath, ChromaSqlite))
             THEN [type |-> "chroma", detected |-> dbPath]
             ELSE IF ExistsSync(fsys, PathJoin(dbPath, IndexFaiss))
             THEN [type |-> "faiss", detected |-> PathJoin(dbPath, IndexFaiss)]
             ELSE IF foundFaiss # Null
             THEN [type |-> "faiss", detected |-> foundFaiss]
             ELSE IF foundChroma # Null
             THEN [type |-> "chroma", detected |-> foundChroma]
             ELSE [type |-> NoType, detected |-> field]
    ELSE [type |-> NoType, detected |-> field]

(***************************************************************************)
(* The adapter command line                                                *)
(***************************************************************************)

\* getPythonCommand: the configured vectorExplorer.pythonPath when it is set,
\* else the platform default (a POSIX host).
GetPythonCommand(customPython) ==
    IF customPython # <<>> THEN customPython ELSE DefaultPython

PythonScriptPath(dbType) ==
    PathJoin(PathJoin(ExtensionPath, PythonDir),
             IF dbType = "faiss" THEN FaissAdapterPy ELSE ChromaAdapterPy)

Quoted(s) == <<"\"">> \o s \o <<"\"">>

\* `${pythonCommand} ${quotedScriptPath} ${quotedDbPath}`
BuildCommand(pythonCommand, scriptPath, dbPath) ==
    pythonCommand \o <<" ">> \o Quoted(scriptPath) \o <<" ">> \o Quoted(dbPath)

\* What the host shell makes of the command string (spawn with shell: true
\* runs `sh -c command`): blanks outside double quotes separate words, a double
\* quote opens or closes a quoted stretch and is removed, an unclosed quote is
\* a syntax error.
RECURSIVE ShellScan(_, _, _, _, _, _)
ShellScan(cmd, i, inQuote, cur, open, words) ==
    IF i > Len(cmd)
    THEN IF inQuote THEN [ok |-> FALSE, argv |-> <<>>]
         ELSE [ok |-> TRUE, argv |-> IF open THEN Append(words, cur) ELSE words]
    ELSE IF cmd[i] = "\""
    THEN ShellScan(cmd, i + 1, ~inQuote, cur, TRUE, words)
    ELSE IF cmd[i] = " " /\ ~inQuote
    THEN ShellScan(cmd, i + 1, FALSE, <<>>, FALSE,
                   IF open THEN Append(words, cur) ELSE words)
    ELSE ShellScan(cmd, i + 1, inQuote, Append(cur, cmd[i]), TRUE, words)

ShellSplit(cmd) == ShellScan(cmd, 1, FALSE, <<>>, FALSE, <<>>)

(***************************************************************************)
(* The adapter's JSON output                                               *)
(***************************************************************************)

\* One character of adapter output may stand for a whole object member.
IsMember(ch) == ch \in {"E", "T", "C", "V", "Z", "F", "M"}

\* The value of a vectors member names the records it holds (see Records).
Member(ch) ==
    CASE ch = "E" -> [key |-> "error", val |-> "boom"]
      [] ch = "T" -> [key |-> "type", val |-> "faiss"]
      [] ch = "C" -> [key |-> "count", val |-> "2"]
      [] ch = "Z" -> [key |-> "vectors", val |-> "no records"]
      [] ch = "F" -> [key |-> "vectors", val |-> "3 records"]
      [] ch = "M" -> [key |-> "vectors", val |-> "51 records"]
      [] OTHER -> [key |-> "vectors", val |-> "1 record"]

\* JSON.parse on a JSON object: `{` member (`,` member)* `}` or `{}`.  ok is
\* FALSE when JSON.parse throws; value lists the members in document order.
JsonParse(s) ==
    LET n == Len(s)
        inner == IF n >= 2 THEN SubSeq(s, 2, n - 1) ELSE <<>>
        wellFormed ==
            /\ n >= 2 /\ s[1] = "{" /\ s[n] = "}"
            /\ \/ inner = <<>>
               \/ /\ Len(inner) % 2 = 1
                  /\ \A i \in 1..Len(inner) :
                        IF i % 2 = 1 THEN IsMember(inner[i]) ELSE inner[i] = ","
    IN  IF wellFormed
        THEN [ok |-> TRUE,
              value |-> [k \in 1..((Len(inner) + 1) \div 2) |-> Member(inner[2 * k - 1])]]
        ELSE [ok |-> FALSE, value |-> <<>>]

\* 'error' in vectorData
HasKey(value, key) == \E i \in 1..Len(value) : value[i].key = key

\* vectorData[key]: the last member with that key
GetKey(value, key) ==
    value[CHOOSE i \in 1..Len(value) :
            /\ value[i].key = key
            /\ \A j \in 1..Len(value) : value[j].key = key => j <= i].val

(***************************************************************************)
(* Outcomes of a load: the resolved VectorData or the Error it rejects     *)
(* with.  The fields are the values interpolated into the message.         *)
(***************************************************************************)

NoOutcome ==
    [kind |-> "none", code |-> 0, command |-> <<>>, detail |-> <<>>,
     output |-> <<>>, ellipsis |-> FALSE, data |-> <<>>, what |-> ""]

\* `Path does not exist: ${dbPath}`
PathNotFound(dbPath) ==
    [NoOutcome EXCEPT !.kind = "PathNotFound", !.detail = dbPath]

DirListLimit == 10

\* The Error readdirSync throws, `EACCES: permission denied, scandir '${p}'`.
FsError(p) == [NoOutcome EXCEPT !.kind = "FsError", !.detail = p]

\* The block that runs when detection returned null.  `Unable to detect
\* database type for file|directory ...`: for a directory its first ten
\* entries and '...' when there are more, the listing read by a readdirSync
\* that no try encloses; `Path is neither a file nor a directory` otherwise.
DetectionFailed(fsys, dbPath) ==
    IF IsFile(fsys, dbPath)
    THEN [NoOutcome EXCEPT !.kind = "DetectionFailed", !.detail = dbPath,
                           !.what = "file"]
    ELSE IF IsDirectory(fsys, dbPath)
    THEN LET rd == Readdir(fsys, dbPath)
             entries == rd.entries
         IN  IF ~rd.ok THEN FsError(dbPath)
             ELSE [NoOutcome EXCEPT !.kind = "DetectionFailed", !.detail = dbPath,
                    !.what = "directory",
                    !.data = SubSeq(entries, 1,
                        IF Len(entries) < DirListLimit THEN Len(entries) ELSE DirListLimit),
                    !.ellipsis = (Len(entries) > DirListLimit)]
    ELSE [NoOutcome EXCEPT !.kind = "DetectionFailed", !.detail = dbPath,
                           !.what = "neither"]

\* `Python adapter not found: ${pythonScriptPath}`
AdapterMissing(scriptPath) ==
    [NoOutcome EXCEPT !.kind = "AdapterMissing", !.detail = scriptPath]

NoErrorOutput == <<"No error output">>
NoOutput == <<"No output">>

\* `Python process exited with code ${code}\nCommand: ...\nError: ...\nOutput: ...`
ProcessExitNonzero(code, command, errorData, outputData) ==
    [NoOutcome EXCEPT !.kind = "ProcessExitNonzero", !.code = code,
        !.command = command,
        !.detail = IF errorData # <<>> THEN errorData ELSE NoErrorOutput,
        !.output = IF outputData # <<>> THEN outputData ELSE NoOutput]

PreviewLimit == 500

\* The preview with '...' appended from 500 characters on instead of above 500.
OutputParseFailed_EllipsisAtLimit(outputData) ==
    [NoOutcome EXCEPT !.kind = "OutputParseFailed",
        !.output = SubSeq(outputData, 1,
            IF Len(outputData) < PreviewLimit THEN Len(outputData) ELSE PreviewLimit),
        !.ellipsis = (Len(outputData) >= PreviewLimit)]

\* `Failed to parse Python output: ...\nOutput: ${outputData.substring(0, 500)}...`
OutputParseFailed(outputData) ==
    [NoOutcome EXCEPT !.kind = "OutputParseFailed",
        !.output = SubSeq(outputData, 1,
            IF Len(outputData) < PreviewLimit THEN Len(outputData) ELSE PreviewLimit),
        !.ellipsis = (Len(outputData) > PreviewLimit)]

\* `Python adapter error: ${vectorData.error}`
AdapterReportedError(value) ==
    [NoOutcome EXCEPT !.kind = "AdapterReportedError",
        !.detail = <<GetKey(value, "error")>>]

\* `Failed to start Python process: ...\nCommand: ${pythonCommand}`
ProcessSpawnFailed(pythonCommand) ==
    [NoOutcome EXCEPT !.kind = "ProcessSpawnFailed", !.command = pythonCommand]

\* resolve(vectorData)
Success(value) == [NoOutcome EXCEPT !.kind = "Success", !.data = value]

\* The close handler without its check of the `error` field.
CloseOutcome_IgnoresErrorField(code, command, errorData, outputData) ==
    LET parsed == JsonParse(outputData)
    IN  IF code # 0 THEN ProcessExitNonzero(code, command, errorData, outputData)
        ELSE IF ~parsed.ok THEN OutputParseFailed(outputData)
        ELSE Success(parsed.value)

\* The close handler parsing stdout before it looks at the exit code.
CloseOutcome_ParsesFirst(code, command, errorData, outputData) ==
    LET parsed == JsonParse(outputData)
    IN  IF parsed.ok /\ HasKey(parsed.value, "error")
        THEN AdapterReportedError(parsed.value)
        ELSE IF parsed.ok /\ code = 0 THEN Success(parsed.value)
        ELSE IF code # 0 THEN ProcessExitNonzero(code, command, errorData, outputData)
        ELSE OutputParseFailed(outputData)

\* The close handler comparing count with the number of vectors before it
\* resolves.
CloseOutcome_ChecksCount(code, command, errorData, outputData) ==
    LET parsed == JsonParse(outputData)
    IN  IF code # 0 THEN ProcessExitNonzero(code, command, errorData, outputData)
        ELSE IF ~parsed.ok THEN OutputParseFailed(outputData)
        ELSE IF HasKey(parsed.value, "error") THEN AdapterReportedError(parsed.value)
        ELSE IF /\ HasKey(parsed.value, "count") /\ HasKey(parsed.value, "vectors")
                /\ GetKey(parsed.value, "count") = "2"
                /\ GetKey(parsed.value, "vectors") = "1 record"
        THEN OutputParseFailed(outputData)
        ELSE Success(parsed.value)

\* The 'close' handler's verdict on the exit code and the collected streams.
CloseOutcome(code, command, errorData, outputData) ==
    LET parsed == JsonParse(outputData)
    IN  IF code # 0 THEN ProcessExitNonzero(code, command, errorData, outputData)
        ELSE IF ~parsed.ok THEN OutputParseFailed(outputData)
        ELSE IF HasKey(parsed.value, "error") THEN AdapterReportedError(parsed.value)
        ELSE Success(parsed.value)

(***************************************************************************)
(* The webview page, media/main.js                                         *)
(***************************************************************************)

\* The records a `vectors` member stands for, by the member's value.  A record
\* is {id, text, source, vector, metadata}; metadata lists the members of the
\* optional mapping, none when it is absent or empty.
Digit(n) == <<"0", "1", "2", "3", "4", "5", "6", "7", "8", "9">>[n + 1]

Record(id, text, source, vector, metadata) ==
    [id |-> id, text |-> text, source |-> source, vector |-> vector,
     metadata |-> metadata]

\* Three records whose fields hold capitals, a comma, a double quote, a line
\* break, an empty source and a metadata mapping.
FewRecords ==
    <<Record(<<"D">>, <<"a", ",", "d">>, <<"x">>, <<1, 2>>, <<>>),
      Record(<<"a">>, <<"\"", "A">>, <<>>, <<>>, << <<"d", "x">> >>),
      Record(<<"A">>, <<"d", "\n", "a">>, <<"x">>, <<1>>, <<>>)>>

\* More records than one page shows, their ids in no sorted order.
ManyCount == 51

ManyRecord(k) ==
    LET n == (k * 7) % ManyCount
    IN  Record(<<Digit(n \div 10), Digit(n % 10)>>,
               IF k % 2 = 0 THEN <<"a">> ELSE <<"D">>,
               IF k % 3 = 0 THEN <<"x">> ELSE <<"d">>,
               <<1>>, <<>>)

Records(val) ==
    CASE val = "1 record" -> <<Record(<<"a">>, <<"d">>, <<"x">>, <<1>>, <<>>)>>
      [] val = "3 records" -> FewRecords
      [] val = "51 records" -> [k \in 1..ManyCount |-> ManyRecord(k)]
      [] OTHER -> <<>>

\* const itemsPerPage = 50
itemsPerPage == 50

SortableColumns == {"id", "text", "source"}

\* The page as the HTML and the script's declarations leave it.  allVectors is
\* undefined when hasVectors is FALSE.
InitialPage ==
    [allVectors |-> <<>>, hasVectors |-> TRUE, filteredVectors |-> <<>>,
     currentPage |-> 1, sortColumn |-> "id", sortDirection |-> "asc",
     searchBox |-> <<>>, view |-> "loading", errorText |-> "",
     header |-> [type |-> "-", count |-> "0"],
     icons |-> [c \in SortableColumns |-> "both"],
     rows |-> <<>>, pageInfo |-> [page |-> 1, of |-> 1, items |-> 0],
     prevDisabled |-> TRUE, nextDisabled |-> TRUE]

\* Characters in the order of their UTF-16 code units.
CodeUnits ==
    <<"\n", " ", "\"", ",", "0", "1", "2", "3", "4", "5", "6", "7", "8", "9",
      "A", "D", "a", "d", "x">>

CharCode(ch) == CHOOSE i \in 1..Len(CodeUnits) : CodeUnits[i] = ch

\* The place of the string s among the strings of at most three characters
\* (no field of a record holds more) in the order of `<`: code unit after code
\* unit, a prefix first.
StringOrder(s) ==
    LET base == Len(CodeUnits) + 1
        unit(i) == IF i <= Len(s) THEN CharCode(s[i]) ELSE 0
    IN  (unit(1) * base + unit(2)) * base + unit(3)

\* String.prototype.includes
Includes(s, q) ==
    \E i \in 0..(Len(s) - Len(q)) : SubSeq(s, i + 1, i + Len(q)) = q

\* String.prototype.trim
Trim(s) ==
    LET keep == {i \in 1..Len(s) : s[i] \notin {" ", "\n"}}
    IN  IF keep = {} THEN <<>>
        ELSE SubSeq(s, CHOOSE i \in keep : \A j \in keep : i <= j,
                       CHOOSE i \in keep : \A j \in keep : j <= i)

\* Array.prototype.slice(start, end) with end within 0..length
Slice(s, start, end) ==
    LET from == IF start < 0 THEN (IF Len(s) + start < 0 THEN 0 ELSE Len(s) + start)
                ELSE start
    IN  SubSeq(s, from + 1, end)

\* The filter callback of handleSearch.
Matches(vector, query) ==
    \/ Includes(ToLowerCase(vector.id), query)
    \/ Includes(ToLowerCase(vector.text), query)
    \/ Includes(ToLowerCase(vector.source), query)

\* The value handleSort's callback compares for a record: a[column] || '' in
\* lower case, as its place in the order of strings.
SortKey(vector, column) == StringOrder(ToLowerCase(vector[column]))

\* The sort callback returning a negative number for records with the keys
\* aVal and bVal.
SortsBefore(aVal, bVal, direction) ==
    IF direction = "asc" THEN aVal < bVal ELSE bVal < aVal

\* The records of `vectors` put at the places `rank` gives them.
Ranked(vectors, rank) ==
    [k \in 1..Len(vectors) |-> vectors[CHOOSE i \in 1..Len(vectors) : rank[i] = k]]

\* The place a stable sort gives each record: one more than the number of
\* records that sort before it or that compare equal and stand before it.
StableRanks(keys, direction) ==
    <<>> \o [i \in 1..Len(keys) |->
                Cardinality({j \in 1..Len(keys) :
                    \/ SortsBefore(keys[j], keys[i], direction)
                    \/ keys[j] = keys[i] /\ j < i}) + 1]

\* Array.prototype.sort with that callback.
Sorted(vectors, column, direction) ==
    Ranked(vectors,
           StableRanks(<<>> \o [i \in 1..Len(vectors) |-> SortKey(vectors[i], column)],
                       direction))

\* renderTable()
RenderTable(w) ==
    LET n == Len(w.filteredVectors)
        totalPages == (n + itemsPerPage - 1) \div itemsPerPage
        startIdx == (w.currentPage - 1) * itemsPerPage
        endIdx == IF startIdx + itemsPerPage < n THEN startIdx + itemsPerPage ELSE n
    IN  [w EXCEPT !.rows = Slice(w.filteredVectors, startIdx, endIdx),
                  !.pageInfo = [page |-> w.currentPage,
                                of |-> IF totalPages = 0 THEN 1 ELSE totalPages,
                                items |-> n],
                  !.prevDisabled = w.currentPage <= 1,
                  !.nextDisabled = w.currentPage >= totalPages]

\* data.type.toUpperCase()
ToUpperCase(type) ==
    CASE type = "faiss" -> "FAISS" [] type = "chroma" -> "CHROMA" [] OTHER -> type

\* handleVectorData(data): a payload with no type or no vectors makes it throw
\* part of the way.
HandleVectorData(w, data) ==
    IF HasKey(data, "error")
    THEN [w EXCEPT !.view = "error", !.errorText = GetKey(data, "error")]
    ELSE IF ~HasKey(data, "type")
    THEN [w EXCEPT !.view = "table"]
    ELSE LET shown == [w EXCEPT !.view = "table",
                          !.header = [type |-> ToUpperCase(GetKey(data, "type")),
                                      count |-> IF HasKey(data, "count")
                                                THEN GetKey(data, "count")
                                                ELSE "undefined"]]
         IN  IF ~HasKey(data, "vectors")
             THEN [shown EXCEPT !.allVectors = <<>>, !.hasVectors = FALSE]
             ELSE RenderTable([shown EXCEPT
                      !.allVectors = Records(GetKey(data, "vectors")),
                      !.hasVectors = TRUE,
                      !.filteredVectors = Records(GetKey(data, "vectors")),
                      !.currentPage = 1])

\* A handleSearch that stays on the page it was on.
HandleSearch_KeepsPage(w, value) ==
    LET query == Trim(ToLowerCase(value))
        typed == [w EXCEPT !.searchBox = value]
    IN  IF ~w.hasVectors THEN typed
        ELSE RenderTable([typed EXCEPT
                 !.filteredVectors =
                     IF query = <<>> THEN w.allVectors
                     ELSE SelectSeq(w.allVectors, LAMBDA v : Matches(v, query))])

\* handleSearch() once the search box holds `value`; spreading or filtering an
\* undefined allVectors throws.
HandleSearch(w, value) ==
    LET query == Trim(ToLowerCase(value))
        typed == [w EXCEPT !.searchBox = value]
    IN  IF ~w.hasVectors THEN typed
        ELSE RenderTable([typed EXCEPT
                 !.filteredVectors =
                     IF query = <<>> THEN w.allVectors
                     ELSE SelectSeq(w.allVectors, LAMBDA v : Matches(v, query)),
                 !.currentPage = 1])

\* handleSort(column)
HandleSort(w, column) ==
    LET direction == IF w.sortColumn = column
                     THEN (IF w.sortDirection = "asc" THEN "desc" ELSE "asc")
                     ELSE "asc"
    IN  RenderTable([w EXCEPT
            !.sortColumn = column,
            !.sortDirection = direction,
            !.filteredVectors = Sorted(w.filteredVectors, column, direction),
            !.icons = [c \in SortableColumns |->
                          IF c # column THEN "both"
                          ELSE IF direction = "asc" THEN "up" ELSE "down"]])

\* changePage(delta)
ChangePage(w, delta) == RenderTable([w EXCEPT !.currentPage = @ + delta])

(***************************************************************************)
(* Export to CSV, utils/csvExporter.ts                                     *)
(***************************************************************************)

RECURSIVE Concat(_)
Concat(parts) == IF parts = <<>> THEN <<>> ELSE Head(parts) \o Concat(Tail(parts))

\* Array.prototype.join
Join(parts, sep) ==
    Concat([i \in 1..Len(parts) |-> IF i = 1 THEN parts[i] ELSE sep \o parts[i]])

\* String(n) for a number below 100
DecimalString(n) ==
    IF n < 10 THEN <<Digit(n)>> ELSE <<Digit(n \div 10), Digit(n % 10)>>

\* JSON.stringify(vector.vector)
JsonNumbers(vector) ==
    <<"[">> \o Join([i \in 1..Len(vector) |-> DecimalString(vector[i])], <<",">>)
            \o <<"]">>

\* JSON.stringify(vector.metadata || {}), the keys and values being strings
\* that need no escape.
JsonObject(members) ==
    <<"{">> \o Join([i \in 1..Len(members) |->
                        <<"\"">> \o members[i][1] \o <<"\"", ":", "\"">>
                                 \o members[i][2] \o <<"\"">>], <<",">>)
            \o <<"}">>

\* The object exportToCSV maps a record to, as the values of the six columns.
CsvRow(vector) ==
    <<vector.id, vector.text, vector.source, JsonNumbers(vector.vector),
      DecimalString(Len(vector.vector)), JsonObject(vector.metadata)>>

CsvColumns ==
    <<<<"i", "d">>, <<"t", "e", "x", "t">>, <<"s", "o", "u", "r", "c", "e">>,
      <<"v", "e", "c", "t", "o", "r">>,
      <<"d", "i", "m", "e", "n", "s", "i", "o", "n">>,
      <<"m", "e", "t", "a", "d", "a", "t", "a">>>>

\* A field written as it is, whatever it holds.
CsvField_Unquoted(field) == field

\* csv-stringify writes a field that holds the delimiter, a quote or a line
\* break between quotes, its quotes doubled.
CsvField(field) ==
    IF \E i \in 1..Len(field) : field[i] \in {",", "\"", "\n"}
    THEN <<"\"">> \o Concat([i \in 1..Len(field) |->
                                IF field[i] = "\"" THEN <<"\"", "\"">>
                                ELSE <<field[i]>>])
                  \o <<"\"">>
    ELSE field

CsvLine(fields) ==
    Join([i \in 1..Len(fields) |-> CsvField(fields[i])], <<",">>) \o <<"\n">>

\* stringify(csvData, {header: true, columns: [...]})
Stringify(rows) ==
    CsvLine(CsvColumns) \o Concat([i \in 1..Len(rows) |-> CsvLine(rows[i])])

\* The text exportToCSV writes for the records `vectors`.
CsvText(vectors) == Stringify([i \in 1..Len(vectors) |-> CsvRow(vectors[i])])

(***************************************************************************)
(* State                                                                   *)
(***************************************************************************)

VARIABLES
    fs,             \* the filesystem
    pythonPath,     \* the vectorExplorer.pythonPath setting, <<>> when unset
    detectedPath,   \* VectorDBLoader._detectedPath
    calls,          \* the loadVectorDB calls made so far, by call number
    procs,          \* the subprocess of each call and its handlers' buffers
    currentData,    \* VectorExplorerPanel._currentData
    posted,         \* messages posted to the webview, in order
    infoMessages,   \* showInformationMessage notifications, in order
    errorMessages,  \* showErrorMessage notifications, in order
    unhandled,      \* calls whose rejection no handler received
    isDisposed,     \* VectorExplorerPanel._isDisposed
    currentPanel,   \* the extension's currentPanel variable
    channel,        \* the webview script's start and the messages under way
    webview,        \* the variables of media/main.js and the page it renders
    exportRuns      \* what each run of the Export CSV command did, in order

vars == <<fs, pythonPath, detectedPath, calls, procs, currentData, posted,
          infoMessages, errorMessages, unhandled,
          isDisposed, currentPanel, channel, webview, exportRuns>>

\* The panel's own state beside the loader's, the webview and the exports.
uiVars == <<isDisposed, currentPanel, channel, webview, exportRuns>>

\* How many loadVectorDB calls a behaviour makes.
MaxCalls == 2
Calls == 1..MaxCalls

IdleCall ==
    [state |-> "idle", dbPath |-> <<>>, dbType |-> NoType, actualPath |-> <<>>,
     steps |-> <<>>, spawns |-> 0, outcome |-> NoOutcome]

NoProc ==
    [status |-> "none", command |-> <<>>, shell |-> [ok |-> FALSE, argv |-> <<>>],
     stdoutLeft |-> <<>>, stderrLeft |-> <<>>, exitCode |-> 0,
     outputData |-> <<>>, errorData |-> <<>>,
     stdoutAll |-> <<>>, stderrAll |-> <<>>,
     closeEvents |-> 0, errorEvents |-> 0]

\* The panel just constructed: not disposed, held by the extension, its webview
\* script not yet run, nothing exported.
InitUi ==
    /\ isDisposed = FALSE
    /\ currentPanel = "panel"
    /\ channel = [running |-> FALSE, skipped |-> 0, handled |-> 0, requests |-> 0]
    /\ webview = InitialPage
    /\ exportRuns = <<>>

Init ==
    /\ fs \in FileSystems
    /\ pythonPath = <<>>
    /\ detectedPath = Null
    /\ calls = [c \in Calls |-> IdleCall]
    /\ procs = [c \in Calls |-> NoProc]
    /\ currentData = NoData
    /\ posted = <<>>
    /\ infoMessages = <<>>
    /\ errorMessages = <<>>
    /\ unhandled = {}
    /\ InitUi

(***************************************************************************)
(* VectorDBLoader.loadVectorDB up to its await                             *)
(***************************************************************************)

\* The path taken from what _detectedPath held when the call began.
ActualPath_Stale(field, dbPath) ==
    IF detectedPath # Null THEN detectedPath ELSE dbPath

\* const actualPath = this._detectedPath || dbPath, `field` being the value of
\* this._detectedPath after detection.
ActualPath(field, dbPath) == IF field # Null THEN field ELSE dbPath

\* loadWithPython spawning without looking for the adapter script first.
LoadSync_NoAdapterCheck(fsys, customPython, field, dbPath) ==
    LET det == DetectDatabaseType(fsys, Null, dbPath)
        actualPath == ActualPath(det.detected, dbPath)
        base == [steps |-> <<"exists">>, detected |-> field, dbType |-> NoType,
                 actualPath |-> <<>>, outcome |-> NoOutcome, command |-> <<>>,
                 spawned |-> FALSE]
    IN  IF ~ExistsSync(fsys, dbPath)
        THEN [base EXCEPT !.outcome = PathNotFound(dbPath)]
        ELSE IF det.type = NoType
        THEN [base EXCEPT !.steps = <<"exists", "detect">>,
                          !.detected = det.detected,
                          !.outcome = DetectionFailed(fsys, dbPath)]
        ELSE [base EXCEPT !.steps = <<"exists", "detect", "spawn">>,
                          !.detected = det.detected, !.dbType = det.type,
                          !.actualPath = actualPath,
                          !.command = BuildCommand(GetPythonCommand(customPython),
                                        PythonScriptPath(det.type), actualPath),
                          !.spawned = TRUE]

\* The checks of loadVectorDB and of the loadWithPython executor around the
\* result `det` of detectDatabaseType.
LoadChecks(fsys, customPython, field, dbPath, det) ==
    LET actualPath == ActualPath(det.detected, dbPath)
        scriptPath == PythonScriptPath(det.type)
        base == [steps |-> <<"exists">>, detected |-> field, dbType |-> NoType,
                 actualPath |-> <<>>, outcome |-> NoOutcome, command |-> <<>>,
                 spawned |-> FALSE]
    IN  IF ~ExistsSync(fsys, dbPath)
        THEN [base EXCEPT !.outcome = PathNotFound(dbPath)]
        ELSE IF det.type = NoType
        THEN [base EXCEPT !.steps = <<"exists", "detect">>,
                          !.detected = det.detected,
                          !.outcome = DetectionFailed(fsys, dbPath)]
        ELSE IF ~ExistsSync(fsys, scriptPath)
        THEN [base EXCEPT !.steps = <<"exists", "detect", "adapter">>,
                          !.detected = det.detected, !.dbType = det.type,
                          !.actualPath = actualPath,
                          !.outcome = AdapterMissing(scriptPath)]
        ELSE [base EXCEPT !.steps = <<"exists", "detect", "adapter", "spawn">>,
                          !.detected = det.detected, !.dbType = det.type,
                          !.actualPath = actualPath,
                          !.command = BuildCommand(GetPythonCommand(customPython),
                                                   scriptPath, actualPath),
                          !.spawned = TRUE]

\* The synchronous run of loadVectorDB and of the loadWithPython executor:
\* the checks made in order (steps), the field it leaves in _detectedPath, and
\* either the Error it rejects with or the command it spawns.
LoadSync(fsys, customPython, field, dbPath) ==
    LoadChecks(fsys, customPython, field, dbPath, DetectDatabaseType(fsys, Null, dbPath))

(***************************************************************************)
(* Promise settlement and the panel's progress task                        *)
(***************************************************************************)

\* A settlement that a later resolve or reject replaces.
Settle_LastWins(call, outcome) ==
    [call EXCEPT !.state = IF outcome.kind = "Success" THEN "resolved"
                           ELSE "rejected",
                 !.outcome = outcome]

\* resolve(...) / reject(...) of the load's promise: only the first call of
\* either settles it.
Settle(call, outcome) ==
    IF call.state = "pending"
    THEN [call EXCEPT !.state = IF outcome.kind = "Success" THEN "resolved"
                                ELSE "rejected",
                      !.outcome = outcome]
    ELSE call

\* The rest of the withProgress task once `await this._loader.loadVectorDB`
\* settles the pending call c with `outcome`.  On success the panel keeps the
\* data, posts it to the webview and notifies; data.type.toUpperCase() throws
\* when the payload has no type.  The task does not look at _isDisposed: on a
\* disposed panel `this._panel.webview.postMessage` is called all the same, and
\* VS Code either takes the call and drops the message or throws from the
\* panel's webview getter, which rejects the task before it notifies.  A
\* rejection leaves the task's promise rejected: loadVectorDB does not await
\* withProgress, so its catch block never sees it.
TaskContinue(c, outcome) ==
    IF outcome.kind = "Success"
    THEN /\ currentData' = outcome.data
         /\ \E thrown \in (IF isDisposed THEN BOOLEAN ELSE {FALSE}) :
               IF thrown
               THEN /\ posted' = posted
                    /\ infoMessages' = infoMessages
                    /\ unhandled' = unhandled \cup {c}
               ELSE /\ posted' = Append(posted, [type |-> "vectorData", call |-> c,
                                                 data |-> outcome.data])
                    /\ IF HasKey(outcome.data, "type")
                       THEN /\ infoMessages' = Append(infoMessages,
                                   [call |-> c, type |-> GetKey(outcome.data, "type")])
                            /\ unhandled' = unhandled
                       ELSE /\ infoMessages' = infoMessages
                            /\ unhandled' = unhandled \cup {c}
         /\ errorMessages' = errorMessages
    ELSE /\ unhandled' = unhandled \cup {c}
         /\ UNCHANGED <<currentData, posted, infoMessages, errorMessages>>

\* A handler settles call c: the task continues when this is the settlement
\* that counts, and nothing else happens when the promise was settled before.
SettleAndContinue(c, outcome) ==
    /\ calls' = [calls EXCEPT ![c] = Settle(@, outcome)]
    /\ IF calls[c].state = "pending" /\ Settle(calls[c], outcome).state # "pending"
       THEN TaskContinue(c, outcome)
       ELSE UNCHANGED <<currentData, posted, infoMessages, errorMessages, unhandled>>

(***************************************************************************)
(* What the spawned process will do: the chunks it writes to each stream   *)
(* and its exit code, or a failure to start.                               *)
(***************************************************************************)

\* stdoutAll and stderrAll record what the process writes over its whole life,
\* stdoutLeft and stderrLeft what it has yet to write.

\* Exit status the shell reports for a command line it cannot parse.
ShellSyntaxExit == 2
ShellSyntaxError == <<"s", "y", "n", "t", "a", "x">>

\* The code 'close' carries after a failed spawn (-ENOENT).
SpawnErrno == 0 - 2

\* Exit status and message of a shell that finds no such command.
ShellNotFoundExit == 127
ShellNotFound == <<"n", "o", "t", " ", "f", "o", "u", "n", "d">>

\* spawn(command, [], {shell: true}): the process started is the shell, which
\* parses the command line, looks its first word up and runs it.
Spawned(fsys, command, plan) ==
    LET sh == ShellSplit(command)
    IN  IF plan.spawnError
        THEN [NoProc EXCEPT !.status = "failing", !.command = command,
                            !.exitCode = SpawnErrno]
        ELSE IF ~sh.ok
        THEN [NoProc EXCEPT !.status = "running", !.command = command, !.shell = sh,
                            !.stderrLeft = <<ShellSyntaxError>>,
                            !.stderrAll = <<ShellSyntaxError>>,
                            !.exitCode = ShellSyntaxExit]
        ELSE IF sh.argv[1] \notin fsys.commands
        THEN [NoProc EXCEPT !.status = "running", !.command = command, !.shell = sh,
                            !.stderrLeft = <<ShellNotFound>>,
                            !.stderrAll = <<ShellNotFound>>,
                            !.exitCode = ShellNotFoundExit]
        ELSE [NoProc EXCEPT !.status = "running", !.command = command, !.shell = sh,
                            !.stdoutLeft = plan.out, !.stderrLeft = plan.err,
                            !.stdoutAll = plan.out, !.stderrAll = plan.err,
                            !.exitCode = plan.code]

(***************************************************************************)
(* Actions                                                                 *)
(***************************************************************************)

\* The promise of call c is settled.
Settled(c) == calls[c].state \in {"resolved", "rejected"}

\* Calls are numbered in the order they are made.
CanLoad(c) ==
    /\ calls[c].state = "idle"
    /\ c > 1 => calls[c - 1].state # "idle"

\* The loaded call c after the synchronous run r of the loader: a process
\* spawned, or the call rejected at once and the task continued.
RunLoad(c, dbPath, plan, r) ==
    LET started == [IdleCall EXCEPT !.state = "pending", !.dbPath = dbPath,
                       !.dbType = r.dbType, !.actualPath = r.actualPath,
                       !.steps = r.steps,
                       !.spawns = IF r.spawned THEN 1 ELSE 0]
    IN  /\ detectedPath' = r.detected
        /\ IF r.spawned
           THEN /\ calls' = [calls EXCEPT ![c] = started]
                /\ procs' = [procs EXCEPT ![c] = Spawned(fs, r.command, plan)]
                /\ UNCHANGED <<currentData, posted, infoMessages,
                               errorMessages, unhandled>>
           ELSE /\ calls' = [calls EXCEPT ![c] = Settle(started, r.outcome)]
                /\ TaskContinue(c, r.outcome)
                /\ procs' = procs

\* VectorExplorerPanel.loadVectorDB(dbPath): the withProgress task runs the
\* loader up to its await; a failure found on the way rejects at once.
LoadVectorDB(c, dbPath, plan) ==
    /\ CanLoad(c)
    /\ RunLoad(c, dbPath, plan, LoadSync(fs, pythonPath, detectedPath, dbPath))
    /\ UNCHANGED <<fs, pythonPath>>
    /\ UNCHANGED uiVars

\* pythonProcess.stdout.on('data')
StdoutData(c) ==
    /\ procs[c].status = "running"
    /\ procs[c].stdoutLeft # <<>>
    /\ procs' = [procs EXCEPT
            ![c].outputData = @ \o Head(procs[c].stdoutLeft),
            ![c].stdoutLeft = Tail(@)]
    /\ UNCHANGED <<fs, pythonPath, detectedPath, calls, currentData, posted,
                   infoMessages, errorMessages, unhandled>>
    /\ UNCHANGED uiVars

\* A stderr handler that also feeds the buffer parsed as JSON.
StderrData_IntoOutput(c) ==
    /\ procs[c].status = "running"
    /\ procs[c].stderrLeft # <<>>
    /\ procs' = [procs EXCEPT
            ![c].errorData = @ \o Head(procs[c].stderrLeft),
            ![c].outputData = @ \o Head(procs[c].stderrLeft),
            ![c].stderrLeft = Tail(@)]
    /\ UNCHANGED <<fs, pythonPath, detectedPath, calls, currentData, posted,
                   infoMessages, errorMessages, unhandled>>
    /\ UNCHANGED uiVars

\* pythonProcess.stderr.on('data')
StderrData(c) ==
    /\ procs[c].status = "running"
    /\ procs[c].stderrLeft # <<>>
    /\ procs' = [procs EXCEPT
            ![c].errorData = @ \o Head(procs[c].stderrLeft),
            ![c].stderrLeft = Tail(@)]
    /\ UNCHANGED <<fs, pythonPath, detectedPath, calls, currentData, posted,
                   infoMessages, errorMessages, unhandled>>
    /\ UNCHANGED uiVars

\* A loader that settles on the process's exit instead of on 'close'.
ProcExit_Settles(c) ==
    /\ procs[c].status = "running"
    /\ procs[c].stdoutLeft = <<>>
    /\ procs[c].stderrLeft = <<>>
    /\ procs' = [procs EXCEPT ![c].status = "exited"]
    /\ calls' = [calls EXCEPT ![c] =
            Settle(@, ProcessExitNonzero(procs[c].exitCode, procs[c].command,
                                         procs[c].errorData, procs[c].outputData))]
    /\ UNCHANGED <<fs, pythonPath, detectedPath, currentData, posted,
                   infoMessages, errorMessages, unhandled>>
    /\ UNCHANGED uiVars

\* The process has written all it had to write and exits; the loader listens
\* to no 'exit' event.
ProcExit(c) ==
    /\ procs[c].status = "running"
    /\ procs[c].stdoutLeft = <<>>
    /\ procs[c].stderrLeft = <<>>
    /\ procs' = [procs EXCEPT ![c].status = "exited"]
    /\ UNCHANGED <<fs, pythonPath, detectedPath, calls, currentData, posted,
                   infoMessages, errorMessages, unhandled>>
    /\ UNCHANGED uiVars

\* pythonProcess.on('close'): emitted once the process has ended and its
\* streams are closed, also after a failed spawn's 'error'.
Close(c) ==
    /\ procs[c].status \in {"exited", "errored"}
    /\ procs' = [procs EXCEPT ![c].status = "closed", ![c].closeEvents = @ + 1]
    /\ SettleAndContinue(c, CloseOutcome(procs[c].exitCode, procs[c].command,
                                         procs[c].errorData, procs[c].outputData))
    /\ UNCHANGED <<fs, pythonPath, detectedPath>>
    /\ UNCHANGED uiVars

\* pythonProcess.on('error'): the process could not be started.
ErrorEvent(c) ==
    /\ procs[c].status = "failing"
    /\ procs' = [procs EXCEPT ![c].status = "errored", ![c].errorEvents = @ + 1]
    /\ SettleAndContinue(c, ProcessSpawnFailed(GetPythonCommand(pythonPath)))
    /\ UNCHANGED <<fs, pythonPath, detectedPath>>
    /\ UNCHANGED uiVars

(***************************************************************************)
(* Specifications                                                          *)
(***************************************************************************)

LoadPaths ==
    {MissingPath, UpperFaissFile, TextFile, ChromaDir, NestedDir, SpaceFile, QuoteFile,
     MixedIndexFile, ChromaFile, FifoPath, LockedDir}

\* The paths opened by overlapping calls: one that does not exist, one that is
\* no database, a Chroma directory and a directory with a nested index.
SharedPaths == {MissingPath, TextFile, ChromaDir, NestedDir}

Plan(out, err, code, spawnError) ==
    [out |-> out, err |-> err, code |-> code, spawnError |-> spawnError]

TypeDoc == <<"{", "T", "}">>
ErrorDoc == <<"{", "E", "}">>
Warning == <<"w">>

\* A run that succeeds while logging to stderr, a run that reports an error
\* with exit code 0, a crash, and a process that cannot be started.
FewPlans ==
    {Plan(<<TypeDoc>>, <<Warning>>, 0, FALSE),
     Plan(<<ErrorDoc>>, <<>>, 0, FALSE),
     Plan(<<>>, <<Warning>>, 2, FALSE),
     Plan(<<>>, <<>>, 0, TRUE)}

NextOver(C, paths, plans) ==
    \E c \in C :
        \/ CanLoad(c) /\ \E dbPath \in paths, plan \in plans :
                            LoadVectorDB(c, dbPath, plan)
        \/ StdoutData(c)
        \/ StderrData(c)
        \/ ProcExit(c)
        \/ Close(c)
        \/ ErrorEvent(c)

\* Calls on one panel and loader, overlapping at will.
Next == NextOver(Calls, SharedPaths, FewPlans)

Spec == Init /\ [][Next]_vars

\* A payload whose count (2) is not the number of its vectors (1 record).
MismatchDoc == <<"{", "T", ",", "C", ",", "V", "}">>

OnePlans == FewPlans \cup {Plan(<<MismatchDoc>>, <<>>, 0, FALSE)}

\* One call on any of the paths.
NextOne == NextOver({1}, LoadPaths, OnePlans)

SpecOne == Init /\ [][NextOne]_vars

\* One call, with the event loop delivering every event a process has raised;
\* nothing obliges a process to exit.

EventLoop ==
    \A c \in Calls :
        /\ WF_vars(StdoutData(c))
        /\ WF_vars(StderrData(c))
        /\ WF_vars(Close(c))
        /\ WF_vars(ErrorEvent(c))

LiveSpec == Init /\ [][NextOne]_vars /\ EventLoop

\* One load of an index file whose adapter writes any chunks in any order.
MaxOutChunks == 3
MaxErrChunks == 1

BigChunk == [i \in 1..(PreviewLimit - 1) |-> "x"]

OutChunks ==
    {<<"{", "E">>, <<"{", "T">>, <<",", "T">>, <<",", "E">>, <<"}">>, <<"x">>, BigChunk}

ErrChunks == {Warning}

SeqsUpTo(S, n) == UNION {[1..k -> S] : k \in 0..n}

StreamPlans ==
    {Plan(out, err, code, FALSE) :
        out \in SeqsUpTo(OutChunks, MaxOutChunks),
        err \in SeqsUpTo(ErrChunks, MaxErrChunks),
        code \in {0, 2}}
    \cup {Plan(<<>>, <<>>, 0, TRUE)}

NextStreams == NextOver({1}, {UpperFaissFile}, StreamPlans)

InitStreams == Init /\ fs = FsComplete

SpecStreams == InitStreams /\ [][NextStreams]_vars

(***************************************************************************)
(* Detection over directory trees: one call opens the root of a tree that  *)
(* holds any subset of the files in TreeFile.  The tree's directories and  *)
(* the order readdir lists their entries in:                               *)
(*   /t          a  .git  b  chroma.sqlite3  index.faiss  r.faiss          *)
(*   /t/a        d  p.index                                                *)
(*   /t/a/d      e  x.FAISS                      (level 2)                 *)
(*   /t/a/d/e    f  w.faiss                      (level 3)                 *)
(*   /t/a/d/e/f  v.faiss                         (level 4)                 *)
(*   /t/.git     g.faiss                                                   *)
(*   /t/b        l  q.faiss  y.index  chroma.sqlite3                       *)
(* /t/b/l is a symbolic link to /t, and /t/a may be unreadable.            *)
(***************************************************************************)

TreeRoot == <<"/", "t">>
DirA == PathJoin(TreeRoot, <<"a">>)
DirD == PathJoin(DirA, <<"d">>)
DirE == PathJoin(DirD, <<"e">>)
DirF == PathJoin(DirE, <<"f">>)
DirGit == PathJoin(TreeRoot, DotGit)
DirB == PathJoin(TreeRoot, <<"b">>)
LoopLink == PathJoin(DirB, <<"l">>)
TreeDirs == {TreeRoot, DirA, DirD, DirE, DirF, DirGit, DirB}

TreeFile ==
    [c |-> PathJoin(TreeRoot, ChromaSqlite),
     i |-> PathJoin(TreeRoot, IndexFaiss),
     r |-> PathJoin(TreeRoot, <<"r">> \o DotFaiss),
     p |-> PathJoin(DirA, <<"p">> \o DotIndex),
     x |-> PathJoin(DirD, <<"x", ".", "F", "A", "I", "S", "S">>),
     w |-> PathJoin(DirE, <<"w">> \o DotFaiss),
     v |-> PathJoin(DirF, <<"v">> \o DotFaiss),
     g |-> PathJoin(DirGit, <<"g">> \o DotFaiss),
     q |-> PathJoin(DirB, <<"q">> \o DotFaiss),
     y |-> PathJoin(DirB, <<"y">> \o DotIndex),
     s |-> PathJoin(DirB, ChromaSqlite)]

TreeListing ==
    (TreeRoot :> <<<<"a">>, DotGit, <<"b">>, ChromaSqlite, IndexFaiss, <<"r">> \o DotFaiss>>)
    @@ (DirA :> <<<<"d">>, <<"p">> \o DotIndex>>)
    @@ (DirD :> <<<<"e">>, <<"x", ".", "F", "A", "I", "S", "S">>>>)
    @@ (DirE :> <<<<"f">>, <<"w">> \o DotFaiss>>)
    @@ (DirF :> <<<<"v">> \o DotFaiss>>)
    @@ (DirGit :> <<<<"g">> \o DotFaiss>>)
    @@ (DirB :> <<<<"l">>, <<"q">> \o DotFaiss, <<"y">> \o DotIndex, ChromaSqlite>>)

\* The complete installation with the tree holding the files named in `files`,
\* /t/a unreadable when `locked`.
TreeFs(files, locked) ==
    LET paths == DOMAIN FsComplete.kind \cup TreeDirs \cup {LoopLink}
                 \cup {TreeFile[f] : f \in files}
        Present(d) == SelectSeq(TreeListing[d], LAMBDA n : PathJoin(d, n) \in paths)
    IN  [kind |-> [p \in paths |->
                    IF p \in DOMAIN FsComplete.kind THEN FsComplete.kind[p]
                    ELSE IF p \in TreeDirs THEN "dir"
                    ELSE IF p = LoopLink THEN "link"
                    ELSE "file"],
         link |-> (LoopLink :> TreeRoot),
         list |-> [d \in DOMAIN FsComplete.list \cup TreeDirs |->
                    IF d \in TreeDirs THEN Present(d) ELSE FsComplete.list[d]],
         unreadable |-> FsComplete.unreadable \cup (IF locked THEN {DirA} ELSE {}),
         commands |-> FsComplete.commands]

TreeFileSystems ==
    {TreeFs(files, locked) : files \in SUBSET DOMAIN TreeFile, locked \in BOOLEAN}

\* A run that succeeds and a process that cannot be started.
TreePlans ==
    {Plan(<<TypeDoc>>, <<Warning>>, 0, FALSE), Plan(<<>>, <<>>, 0, TRUE)}

InitTrees ==
    /\ fs \in TreeFileSystems
    /\ pythonPath = <<>>
    /\ detectedPath = Null
    /\ calls = [c \in Calls |-> IdleCall]
    /\ procs = [c \in Calls |-> NoProc]
    /\ currentData = NoData
    /\ posted = <<>>
    /\ infoMessages = <<>>
    /\ errorMessages = <<>>
    /\ unhandled = {}
    /\ InitUi

NextTrees == NextOver({1}, {TreeRoot}, TreePlans)
SpecTrees == InitTrees /\ [][NextTrees]_vars

(***************************************************************************)
(* The panel's webview, the extension's commands and the panel's disposal  *)
(***************************************************************************)

\* How many vectorData messages refreshes may add, and how many runs of the
\* Export CSV command a behaviour makes.
MaxRefreshPosts == 2
MaxExports == 1

\* A vectorData message carrying the panel's data; call 0 marks a message no
\* load posted.
RefreshMessage == [type |-> "vectorData", call |-> 0, data |-> currentData]

RefreshPosts == {i \in 1..Len(posted) : posted[i].call = 0}

\* media/main.js runs in the webview: it attaches its listeners and requests
\* the data.  Messages posted before that are kept for it or lost: `skipped`
\* counts the lost ones, `handled` the ones lost or taken by the listener.
ScriptStart ==
    /\ ~isDisposed
    /\ ~channel.running
    /\ \E kept \in BOOLEAN :
          channel' = [running |-> TRUE,
                      skipped |-> IF kept THEN 0 ELSE Len(posted),
                      handled |-> IF kept THEN 0 ELSE Len(posted),
                      requests |-> 1]
    /\ UNCHANGED <<fs, pythonPath, detectedPath, calls, procs, currentData, posted,
                   infoMessages, errorMessages, unhandled,
                   isDisposed, currentPanel, webview, exportRuns>>

\* The webview's Refresh button: handleRefresh()
RefreshButton ==
    /\ ~isDisposed
    /\ channel.running
    /\ channel.requests = 0
    /\ Cardinality(RefreshPosts) < MaxRefreshPosts
    /\ channel' = [channel EXCEPT !.requests = @ + 1]
    /\ UNCHANGED <<fs, pythonPath, detectedPath, calls, procs, currentData, posted,
                   infoMessages, errorMessages, unhandled,
                   isDisposed, currentPanel, webview, exportRuns>>

\* A 'refresh' listener that takes the request and posts nothing.
ReceiveRefresh_Silent ==
    /\ ~isDisposed
    /\ channel.requests > 0
    /\ channel' = [channel EXCEPT !.requests = @ - 1]
    /\ UNCHANGED <<fs, pythonPath, detectedPath, calls, procs, currentData, posted,
                   infoMessages, errorMessages, unhandled,
                   isDisposed, currentPanel, webview, exportRuns>>

\* onDidReceiveMessage, case 'refresh'; the listener goes with the panel.
ReceiveRefresh ==
    /\ ~isDisposed
    /\ channel.requests > 0
    /\ channel' = [channel EXCEPT !.requests = @ - 1]
    /\ posted' = IF currentData # NoData THEN Append(posted, RefreshMessage)
                 ELSE posted
    /\ UNCHANGED <<fs, pythonPath, detectedPath, calls, procs, currentData,
                   infoMessages, errorMessages, unhandled,
                   isDisposed, currentPanel, webview, exportRuns>>

\* The vectorExplorer.refresh command and VectorExplorerPanel.refresh()
RefreshCommand ==
    /\ Cardinality(RefreshPosts) < MaxRefreshPosts
    /\ posted' = IF currentPanel = "panel" /\ currentData # NoData /\ ~isDisposed
                 THEN Append(posted, RefreshMessage)
                 ELSE posted
    /\ UNCHANGED <<fs, pythonPath, detectedPath, calls, procs, currentData,
                   infoMessages, errorMessages, unhandled,
                   isDisposed, currentPanel, channel, webview, exportRuns>>

\* The webview's 'message' listener takes the next message posted to it.
ReceiveMessage ==
    /\ ~isDisposed
    /\ channel.running
    /\ channel.handled < Len(posted)
    /\ channel' = [channel EXCEPT !.handled = @ + 1]
    /\ webview' = HandleVectorData(webview, posted[channel.handled + 1].data)
    /\ UNCHANGED <<fs, pythonPath, detectedPath, calls, procs, currentData, posted,
                   infoMessages, errorMessages, unhandled,
                   isDisposed, currentPanel, exportRuns>>

\* The panel is closed: onDidDispose runs dispose(), which disposes every
\* listener in _disposables, among them the one the extension registered
\* through onDispose to clear currentPanel.  Whether an emitter still calls a
\* listener removed while it fires depends on the editor's version.
Dispose ==
    /\ ~isDisposed
    /\ isDisposed' = TRUE
    /\ currentPanel' \in {"panel", "undefined"}
    /\ UNCHANGED <<fs, pythonPath, detectedPath, calls, procs, currentData, posted,
                   infoMessages, errorMessages, unhandled,
                   channel, webview, exportRuns>>

\* await currentPanel?.getCurrentData()
GetCurrentData == IF currentPanel = "panel" THEN currentData ELSE NoData

\* !data || !data.vectors || data.vectors.length === 0
NothingToExport(data) ==
    \/ data = NoData
    \/ ~HasKey(data, "vectors")
    \/ Len(Records(GetKey(data, "vectors"))) = 0

ExportRun(state, data, dialog, wrote, file, message) ==
    [state |-> state, data |-> data, dialog |-> dialog, wrote |-> wrote,
     file |-> file, message |-> message]

DialogOpen ==
    exportRuns # <<>> /\ exportRuns[Len(exportRuns)].state = "dialog"

\* The vectorExplorer.exportCSV command up to the save dialog of exportToCSV:
\* it warns when there is nothing to export.
ExportCSVCommand ==
    /\ Len(exportRuns) < MaxExports
    /\ ~DialogOpen
    /\ exportRuns' = Append(exportRuns,
            IF NothingToExport(GetCurrentData)
            THEN ExportRun("done", GetCurrentData, "none", FALSE, <<>>,
                           "No data to export")
            ELSE ExportRun("dialog", GetCurrentData, "open", FALSE, <<>>, "none"))
    /\ UNCHANGED <<fs, pythonPath, detectedPath, calls, procs, currentData, posted,
                   infoMessages, errorMessages, unhandled,
                   isDisposed, currentPanel, channel, webview>>

\* The save dialog closes and the rest of exportToCSV and of the command runs:
\* the user cancelled, or chose a file that writeFileSync writes or fails to
\* write.
SaveDialogClosed(choice) ==
    /\ DialogOpen
    /\ LET run == exportRuns[Len(exportRuns)]
       IN  exportRuns' = [exportRuns EXCEPT ![Len(exportRuns)] =
                CASE choice = "cancel" ->
                        ExportRun("done", run.data, "cancel", FALSE, <<>>,
                                  "Vector data exported successfully")
                  [] choice = "save" ->
                        ExportRun("done", run.data, "save", TRUE,
                                  CsvText(Records(GetKey(run.data, "vectors"))),
                                  "Vector data exported successfully")
                  [] OTHER ->
                        ExportRun("done", run.data, "save", FALSE, <<>>,
                                  "Failed to export CSV")]
    /\ UNCHANGED <<fs, pythonPath, detectedPath, calls, procs, currentData, posted,
                   infoMessages, errorMessages, unhandled,
                   isDisposed, currentPanel, channel, webview>>

DialogChoices == {"cancel", "save", "unwritable"}

\* One panel from its construction to its disposal: two loads that may overlap,
\* refreshes, exports and the closing of the panel.
VectorsDoc == <<"{", "T", ",", "V", "}">>

PanelPaths == {UpperFaissFile, MissingPath}

PanelPlans ==
    {Plan(<<VectorsDoc>>, <<>>, 0, FALSE), Plan(<<MismatchDoc>>, <<>>, 0, FALSE),
     Plan(<<>>, <<>>, 2, FALSE)}

PanelCalls == {1, 2}

InitPanel == Init /\ fs = FsComplete

\* The open command loads on the panel it finds, which is this one until it is
\* disposed; with `overlap` FALSE no load is asked for while one is under way.
NextPanelWhen(overlap) ==
    \/ \E c \in PanelCalls :
          \/ /\ ~isDisposed
             /\ CanLoad(c)
             /\ overlap \/ \A e \in PanelCalls : e < c => Settled(e)
             /\ \E dbPath \in PanelPaths, plan \in PanelPlans :
                   LoadVectorDB(c, dbPath, plan)
          \/ StdoutData(c)
          \/ ProcExit(c)
          \/ Close(c)
    \/ ScriptStart
    \/ RefreshButton
    \/ ReceiveRefresh
    \/ RefreshCommand
    \/ ReceiveMessage
    \/ Dispose
    \/ ExportCSVCommand
    \/ \E choice \in DialogChoices : SaveDialogClosed(choice)

NextPanel == NextPanelWhen(TRUE)

SpecPanel == InitPanel /\ [][NextPanel]_vars

\* The same panel when each load is asked for after the one before has finished.
NextReload == NextPanelWhen(FALSE)

SpecReload == InitPanel /\ [][NextReload]_vars

\* One load on a panel whose webview script starts before, during or after it.
\* VS Code runs the script of a webview it shows and delivers the messages the
\* two sides post while the panel lives, hence the weak fairness of the script
\* start and of the two listeners; the process's events are fair as in
\* LiveSpec.
NextDeliver ==
    \/ /\ ~isDisposed
       /\ CanLoad(1)
       /\ \E dbPath \in PanelPaths, plan \in PanelPlans : LoadVectorDB(1, dbPath, plan)
    \/ StdoutData(1)
    \/ ProcExit(1)
    \/ Close(1)
    \/ ScriptStart
    \/ RefreshButton
    \/ ReceiveRefresh
    \/ RefreshCommand
    \/ ReceiveMessage
    \/ Dispose

LiveDeliver ==
    /\ InitPanel
    /\ [][NextDeliver]_vars
    /\ WF_vars(StdoutData(1))
    /\ WF_vars(ProcExit(1))
    /\ WF_vars(Close(1))
    /\ WF_vars(ScriptStart)
    /\ WF_vars(ReceiveRefresh)
    /\ WF_vars(ReceiveMessage)

(***************************************************************************)
(* The user at the webview's table: one load, refreshes, searches, sorts   *)
(* and page changes.                                                       *)
(***************************************************************************)

\* searchBox 'input': handleSearch() with the text now in the box.
SearchInput(value) ==
    /\ ~isDisposed
    /\ channel.running
    /\ value # webview.searchBox
    /\ webview' = HandleSearch(webview, value)
    /\ UNCHANGED <<fs, pythonPath, detectedPath, calls, procs, currentData, posted,
                   infoMessages, errorMessages, unhandled,
                   isDisposed, currentPanel, channel, exportRuns>>

\* A click on a sortable header of the table, which shows once data came.
SortClick(column) ==
    /\ ~isDisposed
    /\ channel.running
    /\ webview.view = "table"
    /\ webview' = HandleSort(webview, column)
    /\ UNCHANGED <<fs, pythonPath, detectedPath, calls, procs, currentData, posted,
                   infoMessages, errorMessages, unhandled,
                   isDisposed, currentPanel, channel, exportRuns>>

\* A click on the Previous (delta -1) or Next (delta 1) button while it is
\* enabled.
PageButton(delta) ==
    /\ ~isDisposed
    /\ channel.running
    /\ IF delta < 0 THEN ~webview.prevDisabled ELSE ~webview.nextDisabled
    /\ webview' = ChangePage(webview, delta)
    /\ UNCHANGED <<fs, pythonPath, detectedPath, calls, procs, currentData, posted,
                   infoMessages, errorMessages, unhandled,
                   isDisposed, currentPanel, channel, exportRuns>>

\* What the user types: nothing, a text many records hold, a capital between
\* blanks, a text no record holds.
Queries == {<<>>, <<"a">>, <<" ", "D">>, <<"x", "x">>}

EmptyDoc == <<"{", "T", ",", "Z", "}">>
FewDoc == <<"{", "T", ",", "F", "}">>
ManyDoc == <<"{", "T", ",", "M", "}">>

ViewPlans ==
    {Plan(<<EmptyDoc>>, <<>>, 0, FALSE), Plan(<<FewDoc>>, <<>>, 0, FALSE),
     Plan(<<ManyDoc>>, <<>>, 0, FALSE)}

NextView ==
    \/ /\ CanLoad(1)
       /\ \E plan \in ViewPlans : LoadVectorDB(1, UpperFaissFile, plan)
    \/ StdoutData(1)
    \/ ProcExit(1)
    \/ Close(1)
    \/ ScriptStart
    \/ RefreshButton
    \/ ReceiveRefresh
    \/ ReceiveMessage
    \/ \E value \in Queries : SearchInput(value)
    \/ \E column \in SortableColumns : SortClick(column)
    \/ PageButton(0 - 1)
    \/ PageButton(1)

SpecView == InitPanel /\ [][NextView]_vars

\* The user at the table who also exports.
NextExport ==
    \/ NextView
    \/ ExportCSVCommand
    \/ \E choice \in DialogChoices : SaveDialogClosed(choice)

SpecExport == InitPanel /\ [][NextExport]_vars

(***************************************************************************)
(* Properties                                                              *)
(***************************************************************************)

RECURSIVE Flatten(_)
Flatten(chunks) ==
    IF chunks = <<>> THEN <<>> ELSE Head(chunks) \o Flatten(Tail(chunks))

FailureKinds ==
    {"PathNotFound", "DetectionFailed", "AdapterMissing", "ProcessSpawnFailed",
     "ProcessExitNonzero", "OutputParseFailed", "AdapterReportedError", "FsError"}

ErrorMessagesOf(c) == {i \in 1..Len(errorMessages) : errorMessages[i].call = c}

PostedOf(c) == {i \in 1..Len(posted) : posted[i].call = c}

\* C1: every load that fails is shown to the user as exactly one error
\* message.
C1_FailureSurfacedOnce ==
    \A c \in Calls :
        calls[c].state = "rejected" => Cardinality(ErrorMessagesOf(c)) = 1

\* C2: a process that closes with code 0 and a JSON object carrying an `error`
\* member rejects the load with that member's value, whatever other members
\* the object has, and hands no data to the panel.
C2_ErrorFieldFailsLoad ==
    \A c \in Calls :
        LET parsed == JsonParse(Flatten(procs[c].stdoutAll))
        IN  (/\ procs[c].status = "closed"
             /\ procs[c].exitCode = 0
             /\ parsed.ok
             /\ \E i \in 1..Len(parsed.value) : parsed.value[i].key = "error")
            => /\ calls[c].state = "rejected"
               /\ calls[c].outcome.kind = "AdapterReportedError"
               /\ calls[c].outcome.detail = <<"boom">>
               /\ calls[c].outcome.data = <<>>
               /\ PostedOf(c) = {}
               /\ currentData = NoData

C2_ErrorAmongOtherFields ==
    \E c \in Calls :
        /\ procs[c].status = "closed"
        /\ procs[c].exitCode = 0
        /\ JsonParse(procs[c].outputData).ok
        /\ HasKey(JsonParse(procs[c].outputData).value, "error")
        /\ HasKey(JsonParse(procs[c].outputData).value, "type")
        /\ calls[c].state = "rejected"

\* C3: a subprocess exists only for a call whose path exists, whose type was
\* detected and whose adapter script exists, the three checks having run in
\* that order; a call that failed one of them spawned nothing.
C3_SpawnAfterChecks ==
    \A c \in Calls :
        /\ calls[c].spawns <= 1
        /\ (procs[c].status # "none") <=> (calls[c].spawns = 1)
        /\ calls[c].spawns = 1 =>
              /\ calls[c].steps = <<"exists", "detect", "adapter", "spawn">>
              /\ calls[c].dbPath \in DOMAIN fs.kind
              /\ calls[c].dbType \in {"faiss", "chroma"}
              /\ PathJoin(PathJoin(ExtensionPath, PythonDir),
                          IF calls[c].dbType = "faiss" THEN FaissAdapterPy
                          ELSE ChromaAdapterPy) \in DOMAIN fs.kind
        /\ calls[c].outcome.kind = "PathNotFound" =>
              calls[c].spawns = 0 /\ calls[c].steps = <<"exists">>
        /\ calls[c].outcome.kind = "DetectionFailed" =>
              calls[c].spawns = 0 /\ calls[c].steps = <<"exists", "detect">>
        /\ calls[c].outcome.kind = "AdapterMissing" =>
              calls[c].spawns = 0 /\ calls[c].steps = <<"exists", "detect", "adapter">>

C3_AdapterMissingNoSpawn ==
    \E c \in Calls :
        /\ calls[c].outcome.kind = "AdapterMissing"
        /\ calls[c].dbType = "chroma"
        /\ procs[c].status = "none"

\* C4: a process that ran and closes with a non-zero code rejects the load
\* with the exit code, the command, the collected stderr and the collected
\* stdout, whatever stdout holds; stdout is not parsed and no data comes back.
C4_NonzeroExitReported ==
    \A c \in Calls :
        (/\ procs[c].status = "closed"
         /\ procs[c].exitCode # 0
         /\ procs[c].errorEvents = 0)
        => /\ calls[c].state = "rejected"
           /\ calls[c].outcome.kind = "ProcessExitNonzero"
           /\ calls[c].outcome.code = procs[c].exitCode
           /\ calls[c].outcome.command = procs[c].command
           /\ procs[c].stderrAll # <<>> =>
                 calls[c].outcome.detail = Flatten(procs[c].stderrAll)
           /\ procs[c].stdoutAll # <<>> =>
                 calls[c].outcome.output = Flatten(procs[c].stdoutAll)
           /\ calls[c].outcome.data = <<>>
           /\ PostedOf(c) = {}

C4_NonzeroExitWithErrorJson ==
    \E c \in Calls :
        /\ procs[c].status = "closed"
        /\ procs[c].exitCode # 0
        /\ procs[c].errorEvents = 0
        /\ procs[c].errorData # <<>>
        /\ JsonParse(procs[c].outputData).ok
        /\ HasKey(JsonParse(procs[c].outputData).value, "error")
        /\ calls[c].outcome.kind = "ProcessExitNonzero"

\* C5: a process that closes with code 0 and a stdout that is not JSON rejects
\* the load with a preview that is stdout whole when it has at most 500
\* characters, and its first 500 characters followed by '...' when it has more.
C5_ParseFailurePreview ==
    \A c \in Calls :
        LET out == Flatten(procs[c].stdoutAll)
        IN  (/\ procs[c].status = "closed"
             /\ procs[c].exitCode = 0
             /\ ~JsonParse(out).ok)
            => /\ calls[c].state = "rejected"
               /\ calls[c].outcome.kind = "OutputParseFailed"
               /\ Len(out) <= 500 =>
                     /\ calls[c].outcome.output = out
                     /\ ~calls[c].outcome.ellipsis
               /\ Len(out) > 500 =>
                     /\ calls[c].outcome.output = [i \in 1..500 |-> out[i]]
                     /\ calls[c].outcome.ellipsis

C5_LongOutputTruncated ==
    \E c \in Calls :
        /\ procs[c].status = "closed"
        /\ procs[c].exitCode = 0
        /\ Len(procs[c].outputData) > 500
        /\ calls[c].outcome.kind = "OutputParseFailed"
        /\ calls[c].outcome.ellipsis

\* C6: a call spawns at most one process and settles once, as a success or as
\* one kind of failure: no later event of its process changes the settled
\* call, respawns, or runs the panel's task again, and a call whose process
\* has ended or could not start does settle.
C6_OneLifecycle ==
    /\ \A c \in Calls : (procs[c].status \in {"exited", "failing"}) ~> Settled(c)
    /\ [][\A c \in Calls :
          /\ calls'[c].spawns <= 1
          /\ Settled(c) => calls'[c] = calls[c]
          /\ Settled(c) => procs'[c].command = procs[c].command
          /\ calls'[c].state = "resolved" <=> calls'[c].outcome.kind = "Success"
          /\ calls'[c].state = "rejected" <=> calls'[c].outcome.kind \in FailureKinds
          /\ Cardinality({i \in 1..Len(posted') : posted'[i].call = c}) <= 1]_vars

C6_CloseAfterError ==
    \E c \in Calls :
        /\ procs[c].errorEvents = 1
        /\ procs[c].closeEvents = 1
        /\ calls[c].outcome.kind = "ProcessSpawnFailed"

\* C7: whatever the order of stdout and stderr data events, the buffer parsed
\* at close is the stdout chunks in the order written and the stderr chunks
\* are kept apart; a success document on stdout with exit code 0 resolves the
\* load with that document whatever was written to stderr.
C7_StreamsKeptApart ==
    \A c \in Calls :
        LET parsed == JsonParse(Flatten(procs[c].stdoutAll))
        IN  /\ procs[c].outputData \o Flatten(procs[c].stdoutLeft)
                  = Flatten(procs[c].stdoutAll)
            /\ procs[c].errorData \o Flatten(procs[c].stderrLeft)
                  = Flatten(procs[c].stderrAll)
            /\ procs[c].status \in {"exited", "closed"} =>
                  procs[c].outputData = Flatten(procs[c].stdoutAll)
            /\ (/\ procs[c].status = "closed"
                /\ procs[c].exitCode = 0
                /\ parsed.ok
                /\ \A i \in 1..Len(parsed.value) : parsed.value[i].key # "error")
               => /\ calls[c].state = "resolved"
                  /\ calls[c].outcome.data = parsed.value

C7_SuccessDespiteStderr ==
    \E c \in Calls :
        /\ procs[c].status = "closed"
        /\ procs[c].exitCode = 0
        /\ Len(procs[c].stdoutAll) >= 2
        /\ procs[c].errorData # <<>>
        /\ calls[c].state = "resolved"

\* C8: whatever calls came before or overlap it on the same loader, a call
\* gets the type and the resolved path that detection gives its own path, and
\* the outcome its own path and its own process give.
C8_CallsIndependent ==
    \A c \in Calls :
        calls[c].state # "idle" =>
            LET k == calls[c]
                det == DetectDatabaseType(fs, Null, k.dbPath)
                exists == k.dbPath \in DOMAIN fs.kind
                typed == exists /\ det.type # NoType
                resolved == IF det.detected # Null THEN det.detected ELSE k.dbPath
                script == PythonScriptPath(det.type)
                command == BuildCommand(GetPythonCommand(pythonPath), script, resolved)
            IN  /\ k.dbType = (IF exists THEN det.type ELSE NoType)
                /\ typed => k.actualPath = resolved
                /\ k.spawns = (IF typed /\ script \in DOMAIN fs.kind THEN 1 ELSE 0)
                /\ k.spawns = 1 => procs[c].command = command
                /\ ~exists => k.outcome = PathNotFound(k.dbPath)
                /\ exists /\ ~typed => k.outcome = DetectionFailed(fs, k.dbPath)
                /\ typed /\ k.spawns = 0 => k.outcome = AdapterMissing(script)
                /\ k.spawns = 1 /\ procs[c].errorEvents = 0 /\ procs[c].closeEvents = 0
                      => k.state = "pending"
                /\ k.spawns = 1 /\ procs[c].errorEvents = 1
                      => k.outcome = ProcessSpawnFailed(GetPythonCommand(pythonPath))
                /\ k.spawns = 1 /\ procs[c].errorEvents = 0 /\ procs[c].closeEvents = 1
                      => k.outcome = CloseOutcome(procs[c].exitCode, command,
                                                  Flatten(procs[c].stderrAll),
                                                  Flatten(procs[c].stdoutAll))

C8_OverlapAfterNestedMatch ==
    /\ calls[1].dbPath = NestedDir
    /\ calls[1].actualPath # calls[1].dbPath
    /\ calls[1].state = "pending"
    /\ calls[2].dbPath = ChromaDir
    /\ calls[2].state = "resolved"
    /\ detectedPath = ChromaDir

\* C9: a spawned call stays pending while its process has raised neither
\* 'close' nor 'error'; a call settled by 'close' was settled with every chunk
\* of stdout collected; and once the process has exited the call settles.
C9_WaitsForClose ==
    /\ [](\A c \in Calls :
            /\ (calls[c].spawns = 1 /\ procs[c].closeEvents = 0
                    /\ procs[c].errorEvents = 0) => calls[c].state = "pending"
            /\ (Settled(c) /\ calls[c].spawns = 1 /\ procs[c].errorEvents = 0) =>
                    /\ procs[c].status = "closed"
                    /\ procs[c].outputData = Flatten(procs[c].stdoutAll))
    /\ \A c \in Calls : (procs[c].status = "exited") ~> Settled(c)

C9_ExitedNotYetClosed ==
    \E c \in Calls :
        /\ procs[c].status = "exited"
        /\ procs[c].outputData # <<>>
        /\ calls[c].state = "pending"

\* C10: the shell hands the interpreter the adapter script and then one
\* argument, equal to the resolved path, for every path a load resolves.
C10_SoleArgumentIsPath ==
    \A c \in Calls :
        procs[c].status \in {"running", "exited"} =>
            /\ procs[c].shell.ok
            /\ procs[c].shell.argv =
                  <<GetPythonCommand(pythonPath), PythonScriptPath(calls[c].dbType),
                    calls[c].actualPath>>

(***************************************************************************)
(* Detection over directory trees                                          *)
(***************************************************************************)

Opened(c) == calls[c].state # "idle"

\* The '/' characters of p after its prefix root, and the directories on the
\* way from root (included) down to p.
Slashes(root, p) == {i \in (Len(root) + 1)..Len(p) : p[i] = "/"}
LevelOf(root, p) == Cardinality(Slashes(root, p))
DirsAbove(root, p) == {SubSeq(p, 1, i - 1) : i \in Slashes(root, p)}
Under(root, p) ==
    /\ Len(p) > Len(root) + 1
    /\ SubSeq(p, 1, Len(root) + 1) = root \o <<"/">>

HasFaissExtension(name) ==
    \E suffix \in {DotFaiss, DotIndex} :
        /\ Len(name) >= Len(suffix)
        /\ ToLowerCase(SubSeq(name, Len(name) - Len(suffix) + 1, Len(name))) = suffix

\* Every directory from root down to p is a readable directory proper, none
\* below root named '.git'.
Searchable(fsys, root, p) ==
    \A d \in DirsAbove(root, p) :
        /\ d \in DOMAIN fsys.kind /\ fsys.kind[d] = "dir"
        /\ d \notin fsys.unreadable
        /\ d # root => Basename(d) # DotGit

\* The FAISS files in directories at most n levels below root.
FaissFilesWithin(fsys, root, n) ==
    {p \in DOMAIN fsys.kind :
        /\ Under(root, p) /\ fsys.kind[p] = "file"
        /\ HasFaissExtension(Basename(p))
        /\ Searchable(fsys, root, p)
        /\ LevelOf(root, p) - 1 <= n}

NoDirectMatch(fsys, root) ==
    /\ PathJoin(root, ChromaSqlite) \notin DOMAIN fsys.kind
    /\ PathJoin(root, IndexFaiss) \notin DOMAIN fsys.kind

OpenedDirectory(c) ==
    /\ Opened(c)
    /\ calls[c].dbPath \in DOMAIN fs.kind
    /\ fs.kind[calls[c].dbPath] = "dir"

\* C11: opening a directory that holds neither chroma.sqlite3 nor index.faiss
\* directly resolves to a FAISS file exactly when a .faiss/.index file lies in
\* a readable directory at most 3 levels below it outside '.git', the resolved
\* path is such a file, and no directory below level 3 is handed to readdir.
C11_NestedFaissWithinThreeLevels ==
    \A c \in Calls :
        OpenedDirectory(c) /\ NoDirectMatch(fs, calls[c].dbPath) =>
            LET root == calls[c].dbPath
                within == FaissFilesWithin(fs, root, 3)
                reads == DetectionReads(fs, root)
            IN  /\ calls[c].dbType = "faiss" <=> within # {}
                /\ calls[c].dbType = "faiss" => calls[c].actualPath \in within
                /\ calls[c].dbType = NoType =>
                      calls[c].outcome.kind \in {"DetectionFailed", "FsError"}
                /\ \A i \in 1..Len(reads) : LevelOf(root, reads[i]) <= 3

C11_OnlyAtLevelFour ==
    \E c \in Calls :
        /\ calls[c].dbPath = TreeRoot
        /\ TreeFile.v \in DOMAIN fs.kind
        /\ FaissFilesWithin(fs, TreeRoot, 4) = {TreeFile.v}
        /\ DirE \in {DetectionReads(fs, TreeRoot)[i] : i \in 1..Len(DetectionReads(fs, TreeRoot))}
        /\ calls[c].outcome.kind = "DetectionFailed"

RECURSIVE FaissTraversal(_, _, _)
RECURSIVE TraversalBelow(_, _, _, _, _)

\* The FAISS files of a tree in the order the claim gives: a directory's own
\* matching files in listing order, then what each of its subdirectories
\* holds, in listing order, '.git' left out, down to level 3.
TraversalBelow(fsys, dir, names, i, level) ==
    IF i > Len(names) THEN <<>>
    ELSE (IF fsys.kind[PathJoin(dir, names[i])] = "dir" /\ names[i] # DotGit
          THEN FaissTraversal(fsys, PathJoin(dir, names[i]), level + 1)
          ELSE <<>>)
         \o TraversalBelow(fsys, dir, names, i + 1, level)

FaissTraversal(fsys, dir, level) ==
    IF level > 3 \/ dir \in fsys.unreadable THEN <<>>
    ELSE LET names == fsys.list[dir]
             own == SelectSeq(names, LAMBDA n :
                        /\ fsys.kind[PathJoin(dir, n)] = "file"
                        /\ HasFaissExtension(n))
         IN  [i \in 1..Len(own) |-> PathJoin(dir, own[i])]
             \o TraversalBelow(fsys, dir, names, 1, level)

\* C12: the nested FAISS search resolves to the first file of the traversal
\* that takes a directory's own files in listing order before its
\* subdirectories, then the subdirectories depth-first in listing order
\* without '.git'; no resolved path lies under a '.git' directory.
C12_FirstOfTraversal ==
    \A c \in Calls :
        OpenedDirectory(c) /\ NoDirectMatch(fs, calls[c].dbPath) =>
            LET root == calls[c].dbPath
                order == FaissTraversal(fs, root, 0)
            IN  /\ order # <<>> =>
                      /\ calls[c].dbType = "faiss"
                      /\ calls[c].actualPath = order[1]
                /\ calls[c].dbType = "faiss" =>
                      \A d \in DirsAbove(root, calls[c].actualPath) :
                          d # root => Basename(d) # DotGit

C12_DeepEarlierBeatsShallowLater ==
    \E c \in Calls :
        /\ calls[c].dbPath = TreeRoot
        /\ {TreeFile.x, TreeFile.y, TreeFile.g} \subseteq DOMAIN fs.kind
        /\ calls[c].dbType = "faiss"
        /\ calls[c].actualPath = TreeFile.x

\* C13: for a directory the direct children decide first: with chroma.sqlite3
\* directly inside, the type is Chroma and the resolved path the directory
\* itself; otherwise with index.faiss directly inside, the type is FAISS and
\* the resolved path that file, whatever other FAISS files the tree holds.
C13_DirectChildrenDecide ==
    \A c \in Calls :
        OpenedDirectory(c) =>
            LET root == calls[c].dbPath
                sentinel == PathJoin(root, ChromaSqlite)
                index == PathJoin(root, IndexFaiss)
            IN  /\ sentinel \in DOMAIN fs.kind =>
                      /\ calls[c].dbType = "chroma"
                      /\ calls[c].actualPath = root
                /\ sentinel \notin DOMAIN fs.kind /\ index \in DOMAIN fs.kind =>
                      /\ calls[c].dbType = "faiss"
                      /\ calls[c].actualPath = index

C13_ChromaBesideFaissFiles ==
    \E c \in Calls :
        /\ calls[c].dbPath = TreeRoot
        /\ {TreeFile.c, TreeFile.i, TreeFile.r, TreeFile.q} \subseteq DOMAIN fs.kind
        /\ calls[c].dbType = "chroma"
        /\ calls[c].actualPath = TreeRoot

\* C14: with no direct match, a FAISS file within the depth bound makes the
\* type FAISS whatever chroma.sqlite3 files the tree holds; the type is Chroma
\* only when there is no such file, and then the resolved path is a directory
\* that holds chroma.sqlite3, and that directory is the adapter's argument.
C14_ChromaAfterFaiss ==
    \A c \in Calls :
        OpenedDirectory(c) /\ NoDirectMatch(fs, calls[c].dbPath) =>
            LET root == calls[c].dbPath
                within == FaissFilesWithin(fs, root, 3)
                found == calls[c].actualPath
            IN  /\ within # {} => calls[c].dbType = "faiss"
                /\ calls[c].dbType = "chroma" =>
                      /\ within = {}
                      /\ found \in DOMAIN fs.kind /\ fs.kind[found] = "dir"
                      /\ PathJoin(found, ChromaSqlite) \in DOMAIN fs.kind
                      /\ fs.kind[PathJoin(found, ChromaSqlite)] = "file"
                      /\ calls[c].spawns = 1 /\ procs[c].shell.ok =>
                            /\ Len(procs[c].shell.argv) = 3
                            /\ procs[c].shell.argv[3] = found

C14_NestedChromaDirectory ==
    \E c \in Calls :
        /\ calls[c].dbPath = TreeRoot
        /\ {TreeFile.s, TreeFile.v, TreeFile.g} \subseteq DOMAIN fs.kind
        /\ calls[c].dbType = "chroma"
        /\ calls[c].actualPath = DirB
        /\ procs[c].shell.ok
        /\ procs[c].shell.argv[3] = DirB

(***************************************************************************)
(* Detection of a file, failure reports, payloads, missing interpreter     *)
(***************************************************************************)

\* C15: opening a regular file resolves to FAISS with that same path exactly
\* when the path ends in .faiss or .index in any letter case; every other
\* file, a chroma.sqlite3 file included, matches nothing and starts no
\* process.
C15_FileByExtension ==
    \A c \in Calls :
        Opened(c) /\ calls[c].dbPath \in DOMAIN fs.kind
                  /\ fs.kind[calls[c].dbPath] = "file" =>
            /\ HasFaissExtension(calls[c].dbPath) <=>
                  calls[c].dbType = "faiss" /\ calls[c].actualPath = calls[c].dbPath
            /\ ~HasFaissExtension(calls[c].dbPath) =>
                  /\ calls[c].dbType = NoType
                  /\ calls[c].spawns = 0
                  /\ calls[c].outcome.kind = "DetectionFailed"

C15_MixedCaseIndex ==
    \E c \in Calls :
        /\ calls[c].dbPath = MixedIndexFile
        /\ calls[c].dbType = "faiss"
        /\ calls[c].actualPath = MixedIndexFile

\* The directories within n levels of root that hold a chroma.sqlite3 file.
ChromaDirsWithin(fsys, root, n) ==
    {d \in DOMAIN fsys.kind :
        /\ d = root \/ Under(root, d)
        /\ PathJoin(d, ChromaSqlite) \in DOMAIN fsys.kind
        /\ fsys.kind[PathJoin(d, ChromaSqlite)] = "file"
        /\ Searchable(fsys, root, PathJoin(d, ChromaSqlite))
        /\ LevelOf(root, d) <= n}

\* Paths detection may be handed: a tree, a file, a FIFO, an unreadable
\* directory, and a path that is gone by the time statSync runs.
ProbePaths == {TreeRoot, NestedDir, UpperFaissFile, TextFile, FifoPath, LockedDir, MissingPath}

\* C16: detectDatabaseType returns a type or no match on every path, no match
\* for a vanished path, a FIFO and an unreadable directory; an unreadable
\* subdirectory hides only its own subtree, so a database in a readable
\* sibling is still found.
C16_DetectionTotal ==
    /\ \A p \in ProbePaths :
          LET det == DetectDatabaseType(fs, Null, p)
          IN  /\ det.type \in {"faiss", "chroma", NoType}
              /\ det.type = NoType <=> det.detected = Null
              /\ p \in {FifoPath, LockedDir, MissingPath} => det.type = NoType
    /\ \A c \in Calls :
          OpenedDirectory(c) /\ NoDirectMatch(fs, calls[c].dbPath) =>
              LET root == calls[c].dbPath
                  faiss == FaissFilesWithin(fs, root, 3)
                  chroma == ChromaDirsWithin(fs, root, 3)
              IN  /\ calls[c].dbType \in {"faiss", "chroma", NoType}
                  /\ faiss # {} => calls[c].dbType = "faiss"
                  /\ faiss = {} /\ chroma # {} => calls[c].dbType = "chroma"

C16_FoundBesideUnreadable ==
    \E c \in Calls :
        /\ calls[c].dbPath = TreeRoot
        /\ DirA \in fs.unreadable
        /\ {TreeFile.p, TreeFile.y} \subseteq DOMAIN fs.kind
        /\ calls[c].dbType = "faiss"
        /\ calls[c].actualPath = TreeFile.y

\* The reads of one search are of directories proper within level 3, never of
\* a path that is or passes through a symbolic link, and no two of them reach
\* the same directory.
BoundedReads(fsys, root, reads) ==
    /\ \A i \in 1..Len(reads) :
          /\ reads[i] \in DOMAIN fsys.kind
          /\ fsys.kind[reads[i]] = "dir"
          /\ LevelOf(root, reads[i]) <= 3
    /\ \A i, j \in 1..Len(reads) :
          i < j => Real(fsys, reads[i]) # Real(fsys, reads[j])

\* C17: both nested searches end after finitely many readdir calls on a tree
\* with a symbolic-link cycle: each reads only real directories of levels 0..3,
\* each at most once, and never enters a symbolic link.
C17_SearchesBounded ==
    \A c \in Calls :
        OpenedDirectory(c) /\ NoDirectMatch(fs, calls[c].dbPath) =>
            LET root == calls[c].dbPath
            IN  /\ BoundedReads(fs, root, FaissReads(fs, root, 0, SearchMaxDepth))
                /\ calls[c].dbType # "faiss" =>
                      BoundedReads(fs, root, ChromaReads(fs, root, 0, SearchMaxDepth))

C17_WalkedPastLinkCycle ==
    \E c \in Calls :
        /\ calls[c].dbPath = TreeRoot
        /\ fs.kind[LoopLink] = "link" /\ fs.link[LoopLink] = TreeRoot
        /\ calls[c].dbType = NoType
        /\ calls[c].state = "rejected"
        /\ FaissReads(fs, TreeRoot, 0, SearchMaxDepth) = <<TreeRoot, DirA, DirD, DirE, DirB>>
        /\ ChromaReads(fs, TreeRoot, 0, SearchMaxDepth) = <<TreeRoot, DirA, DirD, DirE, DirB>>

\* C18: a load of an existing path that matches no database type is rejected
\* with the detection-failure message, which names the path and says whether
\* it is a file or a directory, and for a directory lists its first 10 entries
\* at most, with '...' exactly when it has more.
C18_DetectionFailureReported ==
    \A c \in Calls :
        Opened(c) /\ calls[c].dbPath \in DOMAIN fs.kind /\ calls[c].dbType = NoType =>
            LET path == calls[c].dbPath
                out == calls[c].outcome
            IN  /\ calls[c].state = "rejected"
                /\ out.kind = "DetectionFailed"
                /\ out.detail = path
                /\ fs.kind[path] = "file" => out.what = "file"
                /\ fs.kind[path] = "dir" =>
                      /\ out.what = "directory"
                      /\ Len(out.data) <= 10
                      /\ \A i \in 1..Len(out.data) : out.data[i] = fs.list[path][i]
                      /\ Len(out.data) < 10 => Len(out.data) = Len(fs.list[path])
                      /\ out.ellipsis <=> Len(fs.list[path]) > 10

\* C19: a process that closes with code 0 and a JSON object without `error`
\* resolves the load with the parsed members, all of them and in their order,
\* and that same value reaches the panel: a payload whose count is 2 and whose
\* vectors hold one record is a success like any other.
C19_PayloadReturnedUnchecked ==
    \A c \in Calls :
        LET parsed == JsonParse(Flatten(procs[c].stdoutAll))
        IN  (/\ procs[c].status = "closed"
             /\ procs[c].errorEvents = 0
             /\ procs[c].exitCode = 0
             /\ parsed.ok
             /\ \A i \in 1..Len(parsed.value) : parsed.value[i].key # "error")
            => /\ calls[c].state = "resolved"
               /\ calls[c].outcome.kind = "Success"
               /\ calls[c].outcome.data = parsed.value
               /\ \A i \in PostedOf(c) : posted[i].data = parsed.value
               /\ Cardinality(PostedOf(c)) = 1
               /\ Flatten(procs[c].stdoutAll) = MismatchDoc =>
                     calls[c].outcome.data =
                         <<[key |-> "type", val |-> "faiss"],
                           [key |-> "count", val |-> "2"],
                           [key |-> "vectors", val |-> "1 record"]>>

C19_CountMismatchResolved ==
    \E c \in Calls :
        /\ procs[c].status = "closed"
        /\ procs[c].outputData = MismatchDoc
        /\ calls[c].state = "resolved"
        /\ GetKey(calls[c].outcome.data, "count") = "2"
        /\ GetKey(calls[c].outcome.data, "vectors") = "1 record"
        /\ currentData = calls[c].outcome.data

\* C20: a load whose interpreter command the machine cannot run is rejected
\* with the process-spawn failure naming that command, never with a
\* non-zero-exit failure or another kind.
C20_MissingInterpreterIsSpawnFailure ==
    \A c \in Calls :
        (/\ calls[c].spawns = 1
         /\ GetPythonCommand(pythonPath) \notin fs.commands
         /\ Settled(c))
        => /\ calls[c].state = "rejected"
           /\ calls[c].outcome.kind = "ProcessSpawnFailed"
           /\ calls[c].outcome.command = GetPythonCommand(pythonPath)

(***************************************************************************)
(* The panel's data, refreshes and exports                                 *)
(***************************************************************************)

\* The data d came from a load after which a later requested load has
\* finished, with a failure or with other data.
Superseded(d) ==
    \E c \in Calls, e \in Calls :
        /\ c < e
        /\ calls[c].state = "resolved"
        /\ calls[c].outcome.data = d
        /\ Settled(e)
        /\ ~(calls[e].state = "resolved" /\ calls[e].outcome.data = d)

\* A step in which a refresh posts a vectorData message.
RefreshServes ==
    /\ Len(posted') = Len(posted) + 1
    /\ posted'[Len(posted')].call = 0

\* A step in which the Export CSV command obtains data from the panel.
ExportServes ==
    /\ Len(exportRuns') = Len(exportRuns) + 1
    /\ exportRuns'[Len(exportRuns')].data # NoData

\* C21: once a later load has finished or the panel has been closed, neither a
\* refresh nor the Export CSV command is served the data of the earlier load.
C21_EarlierDataNotServed ==
    [][/\ RefreshServes =>
            /\ ~isDisposed
            /\ ~Superseded(posted'[Len(posted')].data)
       /\ ExportServes =>
            /\ ~isDisposed
            /\ ~Superseded(exportRuns'[Len(exportRuns')].data)]_vars

\* The call made last, 0 before any.
LastCall ==
    IF \A c \in Calls : calls[c].state = "idle" THEN 0
    ELSE CHOOSE c \in Calls :
            /\ calls[c].state # "idle"
            /\ \A e \in Calls : calls[e].state # "idle" => e <= c

\* C22: a Refresh of a panel that shows a database, from the webview's button
\* or from the vectorExplorer.refresh command, starts a new load of the
\* database path opened last.
C22_RefreshStartsLoad ==
    [][(currentData # NoData /\ (RefreshCommand \/ ReceiveRefresh)) =>
          \E c \in Calls :
              /\ LastCall # 0
              /\ calls[c].state = "idle"
              /\ calls'[c].state # "idle"
              /\ calls'[c].dbPath = calls[LastCall].dbPath]_vars

(***************************************************************************)
(* The webview's table                                                     *)
(***************************************************************************)

\* The records of allVectors that the text in the search box selects.
MatchingRecords(w) ==
    IF Trim(ToLowerCase(w.searchBox)) = <<>> THEN w.allVectors
    ELSE SelectSeq(w.allVectors,
                   LAMBDA v : Matches(v, Trim(ToLowerCase(w.searchBox))))

\* A header shows an arrow: a column sort is in force.
SortShown(w) == \E c \in SortableColumns : w.icons[c] # "both"

ShownColumn(w) == CHOOSE c \in SortableColumns : w.icons[c] # "both"

ShownDirection(w) == IF w.icons[ShownColumn(w)] = "up" THEN "asc" ELSE "desc"

\* No row stands before a row that sorts before it.
InSortOrder(rows, column, direction) ==
    \A i \in 1..Len(rows) : \A j \in (i + 1)..Len(rows) :
        ~SortsBefore(SortKey(rows[j], column), SortKey(rows[i], column), direction)

\* The rows are records the search selects, as many as a page holds, and in
\* the order of the sort shown when one is.
FirstPageOfSearchAndSort(w) ==
    LET matching == MatchingRecords(w)
    IN  /\ Len(w.rows) = IF Len(matching) < itemsPerPage THEN Len(matching)
                         ELSE itemsPerPage
        /\ \A i \in 1..Len(w.rows) : \E k \in 1..Len(matching) : matching[k] = w.rows[i]
        /\ SortShown(w) =>
              /\ InSortOrder(w.rows, ShownColumn(w), ShownDirection(w))
              /\ \A i \in 1..Len(w.rows) : \A k \in 1..Len(matching) :
                    SortsBefore(SortKey(matching[k], ShownColumn(w)),
                                SortKey(w.rows[i], ShownColumn(w)), ShownDirection(w))
                    => \E j \in 1..Len(w.rows) : w.rows[j] = matching[k]

\* A vectorData message the webview accepts: no error, a type and vectors.
Accepted(data) ==
    ~HasKey(data, "error") /\ HasKey(data, "type") /\ HasKey(data, "vectors")

\* C23: when the webview has handled a vectorData message, the rows it shows
\* are the first page of the records matching the text in the search box, in
\* the order of the column sort that is selected.
C23_DataFilteredAndSorted ==
    [][(ReceiveMessage /\ Accepted(posted[channel.handled + 1].data))
          => FirstPageOfSearchAndSort(webview')]_vars

\* The number of pages of the filtered records, 1 when there are none.
PageCount(w) ==
    IF Len(w.filteredVectors) = 0 THEN 1
    ELSE (Len(w.filteredVectors) + itemsPerPage - 1) \div itemsPerPage

\* C28: in the webview currentPage is within 1..max(1, number of pages of the
\* filtered records), and the page shown holds between 1 and 50 rows whenever
\* the filtered records are not empty.
C28_PageInRange ==
    /\ webview.currentPage \in 1..PageCount(webview)
    /\ webview.filteredVectors # <<>> =>
          /\ Len(webview.rows) \in 1..itemsPerPage
          /\ webview.pageInfo.page = webview.currentPage

C28_OnSecondPage ==
    /\ webview.currentPage = 2
    /\ Len(webview.filteredVectors) > itemsPerPage
    /\ Len(webview.rows) = Len(webview.filteredVectors) - itemsPerPage
    /\ webview.prevDisabled = FALSE
    /\ webview.nextDisabled = TRUE

\* C29: after a sort click or a search input, the rows shown are in the order
\* of the column and direction that the headers' sort icon shows.
C29_SortKeptAcrossSearch ==
    [][((\E value \in Queries : SearchInput(value))
        \/ (\E column \in SortableColumns : SortClick(column)))
          => (SortShown(webview') =>
                InSortOrder(webview'.rows, ShownColumn(webview'),
                            ShownDirection(webview')))]_vars

(***************************************************************************)
(* Exported files, read back as CSV                                        *)
(***************************************************************************)

QuoteCount(text, from, to) == Cardinality({k \in from..to : text[k] = "\""})

\* A character outside quotes: an even number of quotes stands between the
\* start of its record and it.
Unquoted(text, start, i) == QuoteCount(text, start, i - 1) % 2 = 0

\* A line break outside quotes at i ends the record starting at `start`.
EndsRecord(text, start, i) == text[i] = "\n" /\ Unquoted(text, start, i)

\* Where the record starting at `start` ends: its first line break outside
\* quotes, or the end of the text when there is none.
RecordEnd(text, start) ==
    IF \E i \in start..Len(text) : EndsRecord(text, start, i)
    THEN CHOOSE i \in start..Len(text) :
            /\ EndsRecord(text, start, i)
            /\ \A j \in start..(i - 1) : ~EndsRecord(text, start, j)
    ELSE Len(text) + 1

\* The value of a field: what stands between its quotes, each doubled quote
\* once.
FieldValue(field) ==
    IF field # <<>> /\ field[1] = "\""
    THEN LET content == SubSeq(field, 2, Len(field) - 1)
             kept == SelectSeq([k \in 1..Len(content) |-> k],
                        LAMBDA k : content[k] # "\"" \/ ~Unquoted(content, 1, k))
         IN  [k \in 1..Len(kept) |-> content[kept[k]]]
    ELSE field

\* The fields of one record: the stretches between its commas outside quotes.
FieldsOf(line) ==
    LET seps == {k \in 1..Len(line) : line[k] = "," /\ Unquoted(line, 1, k)}
        sep(m) == IF m = 0 THEN 0
                  ELSE IF m > Cardinality(seps) THEN Len(line) + 1
                  ELSE CHOOSE k \in seps : Cardinality({j \in seps : j < k}) = m - 1
    IN  [m \in 1..(Cardinality(seps) + 1) |->
            FieldValue(SubSeq(line, sep(m - 1) + 1, sep(m) - 1))]

\* The records of a CSV text from `start` on, each the values of its fields,
\* the first of them ending at `end`.
RECURSIVE CsvRecordsFrom(_, _, _)
CsvRecordsFrom(text, start, end) ==
    IF start > Len(text) THEN <<>>
    ELSE <<FieldsOf(SubSeq(text, start, end - 1))>>
            \o CsvRecordsFrom(text, end + 1, RecordEnd(text, end + 1))

CsvRecords(text) == CsvRecordsFrom(text, 1, RecordEnd(text, 1))

\* The rows a file should hold for the VectorData `data`: the six column
\* names, then for each record in load order its id, text and source, its
\* vector as JSON, the vector's length and its metadata as JSON.
ExpectedRows(data) ==
    LET vectors == Records(GetKey(data, "vectors"))
    IN  <<CsvColumns>> \o [i \in 1..Len(vectors) |-> CsvRow(vectors[i])]

C30_SuccessOnlyIfWritten ==
    \A i \in 1..Len(exportRuns) :
        exportRuns[i].message = "Vector data exported successfully"
            => exportRuns[i].wrote

(***************************************************************************)
(* Overlapping loads and loads that outlive the panel                      *)
(***************************************************************************)

\* The vectorData messages the loads posted, without those of refreshes.
LoadPosts == SelectSeq(posted, LAMBDA m : m.call # 0)

\* C25: once two loads of an open panel have both succeeded, the panel's data
\* and the data the loads posted last are those of the load requested last,
\* whichever subprocess finished first.
C25_LastRequestedWins ==
    (/\ ~isDisposed
     /\ calls[1].state = "resolved"
     /\ calls[2].state = "resolved")
        => /\ currentData = calls[2].outcome.data
           /\ LoadPosts # <<>>
           /\ LoadPosts[Len(LoadPosts)].call = 2
           /\ LoadPosts[Len(LoadPosts)].data = calls[2].outcome.data

Received(d) ==
    \E i \in (channel.skipped + 1)..channel.handled : posted[i].data = d

\* C27: after a successful load the webview of a panel that stays open
\* eventually receives the load's VectorData, whether its script's initial
\* 'refresh' request or the load's completion comes first.
C27_DataReachesWebview ==
    (calls[1].state = "resolved")
        ~> (isDisposed \/ Received(calls[1].outcome.data))

\* The load completed before the script ran and its message was lost; the data
\* reached the webview on the script's initial 'refresh' request.
C27_ServedAgainOnRefresh ==
    /\ calls[1].state = "resolved"
    /\ ~isDisposed
    /\ channel.skipped = 1
    /\ posted[1].call = 1
    /\ Received(calls[1].outcome.data)

====
